---------------------------- MODULE Spec2Model ----------------------------
(***************************************************************************)
(* serial_tester: the framed packet protocol (core/protocol.py), the       *)
(* stream reassembler (core/serial_handler.py) and the test engine         *)
(* (core/test_engine.py).                                                  *)
(*                                                                         *)
(* Bytes are integers 0..255 and byte strings are sequences of them.       *)
(* 32-bit quantities are kept as two 16-bit halves [hi, lo], so that the   *)
(* width of every wire field is the width struct.pack gives it.            *)
(* Time is exact fixed point: an absolute time is [hi, lo, sub], meaning   *)
(* hi * 65536 + lo whole milliseconds since the epoch plus sub ticks of    *)
(* 1/TicksPerMs millisecond.  float rounding is not modelled.              *)
(***************************************************************************)
EXTENDS Integers, Sequences, FiniteSets, TLC

(***************************************************************************)
(* Bit operations on bytes and 16-bit halves                               *)
(***************************************************************************)
RECURSIVE BitXor(_, _, _)
BitXor(a, b, n) ==
    IF n = 0 THEN 0
    ELSE (((a % 2) + (b % 2)) % 2) + 2 * BitXor(a \div 2, b \div 2, n - 1)

XorNib == [a \in 0..15 |-> [b \in 0..15 |-> BitXor(a, b, 4)]]

Xor8(a, b) == (XorNib[a \div 16][b \div 16] * 16) + XorNib[a % 16][b % 16]

Xor16(a, b) == (Xor8(a \div 256, b \div 256) * 256) + Xor8(a % 256, b % 256)

\* the four big-endian bytes of a 32-bit value held as two 16-bit halves
Bytes32(w) == << w.hi \div 256, w.hi % 256, w.lo \div 256, w.lo % 256 >>

\* struct.pack('!I', n) for a small non-negative n
PackU32(n) == Bytes32([hi |-> n \div 65536, lo |-> n % 65536])

\* struct.unpack('!I', b)[0] as two halves
Unpack32(b) == [hi |-> (b[1] * 256) + b[2], lo |-> (b[3] * 256) + b[4]]

\* bytes i..j (1-based, inclusive) of s, clipped like a Python slice
Slice(s, i, j) ==
    IF j < i THEN << >>
    ELSE SubSeq(s, i, IF j > Len(s) THEN Len(s) ELSE j)

(***************************************************************************)
(* zlib.crc32: CRC-32, reflected, polynomial 0xEDB88320, initial value and *)
(* final xor 0xFFFFFFFF                                                    *)
(***************************************************************************)
CrcShift1(c) ==
    LET s == [hi |-> c.hi \div 2, lo |-> (c.lo \div 2) + ((c.hi % 2) * 32768)]
    IN  IF c.lo % 2 = 1
        THEN [hi |-> Xor16(s.hi, 60856), lo |-> Xor16(s.lo, 33568)]
        ELSE s

RECURSIVE CrcIter(_, _)
CrcIter(c, n) == IF n = 0 THEN c ELSE CrcIter(CrcShift1(c), n - 1)

CrcTable == [i \in 0..255 |-> CrcIter([hi |-> 0, lo |-> i], 8)]

CrcByte(c, b) ==
    LET t == CrcTable[Xor8(c.lo % 256, b)]
    IN  [hi |-> Xor16(t.hi, c.hi \div 256),
         lo |-> Xor16(t.lo, (c.lo \div 256) + ((c.hi % 256) * 256))]

RECURSIVE CrcRun(_, _, _)
CrcRun(c, data, i) ==
    IF i > Len(data) THEN c
    ELSE LET n == CrcByte(c, data[i])
         IN  IF n.lo >= 0 THEN CrcRun(n, data, i + 1) ELSE n

\* zlib.crc32(data) & 0xffffffff
Crc32(data) ==
    LET c == CrcRun([hi |-> 65535, lo |-> 65535], data, 1)
    IN  [hi |-> 65535 - c.hi, lo |-> 65535 - c.lo]

(***************************************************************************)
(* Bounds of the model                                                     *)
(***************************************************************************)
\* clock ticks per millisecond: what the wire timestamp cannot carry
TicksPerMs == 2
\* longest payload handed to create_packet in the codec harness
MaxPayload == 4
\* clock ticks the codec harness lets pass
MaxCodecClock == 2

(***************************************************************************)
(* core/protocol.py: packets                                               *)
(***************************************************************************)
DATA == 1
ACK == 2
HEARTBEAT == 3
PacketType == {DATA, ACK, HEARTBEAT}

MAGIC_BYTE == 170
\* struct.calcsize('!BBHI')
HEADER_FORMAT_SIZE == 8
HEADER_SIZE == HEADER_FORMAT_SIZE + 4
FOOTER_SIZE == 4

\* the wall clock time.time() at `ticks` clock ticks after the epoch base `ep`
\* ([hi, lo]: milliseconds since 1970)
AbsTime(ep, ticks) ==
    LET ms == ep.lo + (ticks \div TicksPerMs)
    IN  [hi |-> ep.hi + (ms \div 65536), lo |-> ms % 65536,
         sub |-> ticks % TicksPerMs]

NoTime == [hi |-> 0, lo |-> 0, sub |-> 0]

NoPkt == [packet_type |-> 0, sequence_id |-> 0, timestamp |-> NoTime,
          payload |-> << >>]

\* Packet(packet_type, sequence_id, timestamp, payload)
Packet(ptype, seq, ts, payload) ==
    [packet_type |-> ptype, sequence_id |-> seq, timestamp |-> ts,
     payload |-> payload]

\* create_packet: the packet it returns (the caller's action bumps the counter)
CreatePacket(ptype, payload, counter, now) == Packet(ptype, counter, now, payload)

\* int(packet.timestamp * 1000)
TimestampMs(ts) == [hi |-> ts.hi, lo |-> ts.lo]

\* what a call returns: bytes, or the exception it raises
Bytes(b) == [err |-> "", bytes |-> b]
Raised(e) == [err |-> e, bytes |-> << >>]

\* struct.pack('!BBHI', ...) of serialize_packet: 'H' takes 0..65535 and 'I'
\* takes 0..4294967295, anything else is struct.error
PackHeader(p) ==
    IF p.sequence_id > 65535 \/ p.sequence_id < 0 \/ p.timestamp.hi > 65535
    THEN Raised("struct.error")
    ELSE Bytes(<< MAGIC_BYTE, p.packet_type,
                  p.sequence_id \div 256, p.sequence_id % 256 >>
               \o Bytes32(TimestampMs(p.timestamp)))

\* a payload size packed as two bytes instead of four
PayloadSizeShort(p) == << Len(p.payload) \div 256, Len(p.payload) % 256 >>

\* struct.pack('!I', packet.payload_size)
PayloadSizeField(p) == PackU32(Len(p.payload))

SerializePacket(p) ==
    LET header == PackHeader(p)
    IN  IF header.err # "" THEN header
        ELSE LET data == header.bytes \o PayloadSizeField(p) \o p.payload
             IN  Bytes(data \o Bytes32(Crc32(data)))

\* results of deserialize_packet
None == [kind |-> "none", pkt |-> NoPkt, exc |-> ""]
Some(p) == [kind |-> "packet", pkt |-> p, exc |-> ""]
Throw(e) == [kind |-> "raise", pkt |-> NoPkt, exc |-> e]

\* len(data) < HEADER_SIZE + payload_size + FOOTER_SIZE, payload_size a 32-bit
\* value in two halves
FrameExceeds(n, payload_size) ==
    LET room == n - (HEADER_SIZE + FOOTER_SIZE)
    IN  \/ room < 0
        \/ (room \div 65536) < payload_size.hi
        \/ /\ (room \div 65536) = payload_size.hi
           /\ (room % 65536) < payload_size.lo

\* a decoder that does not compare the checksums
ChecksumIgnored(expected, actual) == TRUE

\* expected_checksum != actual_checksum is what rejects the frame
ChecksumMatches(expected, actual) == expected = actual

\* PacketType(ptype): ValueError for a value that is no member
PacketTypeOf(ptype) == IF ptype \in PacketType THEN Bytes(<< ptype >>)
                       ELSE Raised("ValueError")

\* the try block of deserialize_packet
TryDeserialize(data) ==
    IF Len(data) < HEADER_SIZE + FOOTER_SIZE THEN None
    ELSE
      LET magic == data[1]
          ptype == data[2]
          seq_id == (data[3] * 256) + data[4]
          timestamp_ms == Unpack32(SubSeq(data, 5, 8))
          payload_size == Unpack32(SubSeq(data, HEADER_FORMAT_SIZE + 1, HEADER_SIZE))
      IN  IF magic # MAGIC_BYTE THEN None
          ELSE IF FrameExceeds(Len(data), payload_size) THEN None
          ELSE
            LET payload_end == HEADER_SIZE + payload_size.lo
                payload == Slice(data, HEADER_SIZE + 1, payload_end)
                expected_checksum ==
                    Unpack32(SubSeq(data, payload_end + 1, payload_end + FOOTER_SIZE))
                actual_checksum == Crc32(SubSeq(data, 1, payload_end))
                ty == PacketTypeOf(ptype)
            IN  IF ~ChecksumMatches(expected_checksum, actual_checksum) THEN None
                ELSE IF ty.err # "" THEN Throw(ty.err)
                ELSE Some(Packet(ptype, seq_id,
                                 [hi |-> timestamp_ms.hi, lo |-> timestamp_ms.lo,
                                  sub |-> 0],
                                 payload))

\* an except clause that forgets ValueError
CaughtStructOnly == {"struct.error"}

\* the exceptions deserialize_packet's except clause turns into None
Caught == {"struct.error", "ValueError"}

DeserializePacket(data) ==
    LET r == TryDeserialize(data)
    IN  IF r.kind = "raise" /\ r.exc \in Caught THEN None ELSE r

(***************************************************************************)
(* State                                                                   *)
(***************************************************************************)
VARIABLES
    epoch,              \* the wall clock when the run began, [hi, lo] ms
    clock,              \* clock ticks since then
    \* ---- the codec harness: one ProtocolHandler and a frame in transit
    sequence_counter,   \* ProtocolHandler.sequence_counter
    packet,             \* the packet create_packet returned last
    wire,               \* what serialize_packet(packet) returned
    buf,                \* the bytes handed to deserialize_packet
    decoded,            \* what deserialize_packet(buf) returned
    tamper,             \* what happened to the frame in transit
    flipped,            \* the bit of the frame that was flipped, or -1
    cpc,                \* idle, created, serialized, decoded
    \* ---- the reassembler harness: one receive loop and the line feeding it
    input,              \* what the line carries: garbage g, then frames f1, f2
    line,               \* the bytes of it that have not arrived yet
    rxbuf,              \* the local bytearray of _receive_loop
    emitted,            \* the packets packet_received has emitted, in order
    bytes_received,     \* SerialHandler.bytes_received
    \* ---- two test engines, each with its serial handler, and their link
    mode,               \* TestEngine.mode
    packet_size,        \* TestEngine.packet_size
    transmission_rate,  \* TestEngine.transmission_rate
    test_duration,      \* TestEngine.test_duration
    is_running,         \* TestEngine.is_running
    metrics,            \* TestEngine.metrics
    pending_acks,       \* TestEngine.pending_acks, entries [seq, sent]
    expected_sequences, \* TestEngine.expected_sequences
    received_sequences, \* TestEngine.received_sequences
    last_sequence,      \* TestEngine.last_sequence
    handler,            \* the engine's SerialHandler and its ProtocolHandler
    tpc,                \* where the engine's test thread is
    loc,                \* the locals of _test_loop and the loop it runs
    wake,               \* when the test thread's sleep ends
    lag,                \* what a sleep takes beyond what was asked, in ticks
    raised,             \* where an exception left the engine's code unhandled
    wired,              \* whether what one engine writes reaches the other
    link_delay,         \* what the link takes to carry a frame, in ticks
    preempts,           \* how often the handler ran in the middle of a send
    runs,               \* how many tests each engine has started
    link,               \* the frames on their way to each engine
    inbox,              \* packets emitted by packet_received, not yet handled
    handled,            \* ids of the DATA packets a responder handled this run
    is_paused,          \* TestEngine.is_paused
    stop_event,         \* TestEngine.stop_event is set
    pause_event,        \* TestEngine.pause_event is set
    signals,            \* how often the engine emitted each lifecycle signal
    mpc,                \* where the engine's main thread is: idle, or joining in stop_test
    deadline,           \* when the join of stop_test gives up
    calls,              \* how many calls the user has left to make
    returned            \* the last call of the user: [e, op, ret]

timeVars == << epoch, clock >>
codecVars == << sequence_counter, packet, wire, buf, decoded, tamper, flipped, cpc >>
parseVars == << input, line, rxbuf, emitted, bytes_received >>
configVars == << mode, packet_size, transmission_rate, test_duration >>
trackVars == << pending_acks, expected_sequences, received_sequences, last_sequence >>
threadVars == << tpc, loc, wake >>
linkVars == << link, inbox >>
flagVars == << is_paused, stop_event, pause_event, signals >>
ctlVars == << flagVars, mpc, deadline, calls, returned >>
engVars == << configVars, is_running, metrics, trackVars, handler, threadVars,
              lag, raised, wired, link_delay, preempts, runs, linkVars, handled,
              ctlVars >>
vars == << timeVars, codecVars, parseVars, engVars >>
\* what the codec harness leaves alone
notCodec == << parseVars, engVars >>
\* what the reassembler harness leaves alone
notParse == << codecVars, engVars >>
\* what the engines leave alone
notEngine == << codecVars, parseVars >>

(***************************************************************************)
(* Inputs                                                                  *)
(***************************************************************************)
\* clocks: shortly after 1970, one millisecond before the 32-bit millisecond
\* field is full, and 2025-01-01T00:00:00Z
EarlyEpoch == [hi |-> 15, lo |-> 16960]
EdgeEpoch == [hi |-> 65535, lo |-> 65535]
PresentEpoch == [hi |-> 26484521, lo |-> 31744]
Epochs == {EarlyEpoch, EdgeEpoch, PresentEpoch}

\* the counter of a fresh handler, and of one that has created 65536 packets
SeqStarts == {0, 65536}
\* packets created in one run of the codec harness
MaxCreates == 1

\* b'X' * n
Filler(n) == [i \in 1..n |-> 88]

\* a payload that repeats the trailer of the same header's empty frame
NestedTrailer(ptype, counter, now) ==
    LET w == SerializePacket(Packet(ptype, counter, now, << >>))
    IN  IF w.err = "" THEN Slice(w.bytes, HEADER_SIZE + 1, HEADER_SIZE + FOOTER_SIZE)
        ELSE Filler(FOOTER_SIZE)

Payloads(ptype, counter, now) ==
    {Filler(n) : n \in 0..MaxPayload}
      \cup (IF MaxPayload >= FOOTER_SIZE THEN {NestedTrailer(ptype, counter, now)}
            ELSE {})

RECURSIVE Pow2(_)
Pow2(n) == IF n = 0 THEN 1 ELSE 2 * Pow2(n - 1)

\* b with bit i flipped (bit 0 is the lowest bit of the first byte)
FlipBit(b, i) ==
    [b EXCEPT ![(i \div 8) + 1] = Xor8(b[(i \div 8) + 1], Pow2(i % 8))]

\* frame f with byte i set to v and its trailer recomputed
Reseal(f, i, v) ==
    LET body == [SubSeq(f, 1, Len(f) - FOOTER_SIZE) EXCEPT ![i] = v]
    IN  body \o Bytes32(Crc32(body))

WrongTypes == {0, 4, 255}
WrongMagics == {0, 171}

(***************************************************************************)
(* The codec harness                                                       *)
(***************************************************************************)
CodecIdle ==
    /\ packet = NoPkt
    /\ wire = Bytes(<< >>)
    /\ buf = << >>
    /\ decoded = None
    /\ tamper = "none"
    /\ flipped = -1
    /\ cpc = "idle"

\* no reassembler
ParseIdle ==
    /\ input = [g |-> << >>, f1 |-> << >>, f2 |-> << >>]
    /\ line = << >>
    /\ rxbuf = << >>
    /\ emitted = << >>
    /\ bytes_received = 0

(***************************************************************************)
(* The engines as constructed                                              *)
(***************************************************************************)
Engines == {1, 2}
Other(e) == 3 - e

\* TestMode
TRANSMITTER == "transmitter"
RECEIVER == "receiver"

\* times the engine keeps are clock ticks since epoch; the literal 0 of a
\* metrics record that has no time yet is NoStamp
NoStamp == -1
Seconds(n) == n * 1000 * TicksPerMs

\* TestMetrics as __init__ and _reset_metrics build it
EmptyMetrics ==
    [start_time |-> NoStamp, end_time |-> NoStamp, packets_sent |-> 0,
     packets_received |-> 0, packets_lost |-> 0, bytes_transmitted |-> 0,
     latency_samples |-> << >>, bandwidth_samples |-> << >>, errors |-> << >>]

\* the locals of a test thread that has not run yet
NoLocals ==
    [current_time |-> NoStamp, last_heartbeat |-> NoStamp,
     last_bandwidth_calc |-> NoStamp, bytes_at_last_calc |-> 0,
     next_packet_time |-> NoStamp, sequence_id |-> -1, timed_out |-> {}]

\* no thread of an earlier test is left
NoThread == [pc |-> "none", loc |-> NoLocals]

\* SerialHandler.__init__, with the counter of its ProtocolHandler and the
\* buffer of its receive loop; created are the ids create_packet gave out,
\* error_occurred counts the emits of that signal, and writable tells whether
\* the port takes a write or raises SerialException;
\* stale is the thread of an earlier test that is still alive
NewHandler ==
    [is_connected |-> FALSE, sequence_counter |-> 0, bytes_sent |-> 0,
     bytes_received |-> 0, packets_sent |-> 0, packets_received |-> 0,
     buffer |-> << >>, created |-> << >>, error_occurred |-> 0, writable |-> TRUE,
     stale |-> NoThread]

\* test_started, test_stopped, test_paused, test_resumed: none emitted yet
NoSignals == [started |-> 0, stopped |-> 0, paused |-> 0, resumed |-> 0]

\* no call of the user yet
NoCall == [e |-> 0, op |-> "none", ret |-> "none"]

\* TestEngine.__init__ of both engines, but for the configuration
EngFresh ==
    /\ is_running = [e \in Engines |-> FALSE]
    /\ metrics = [e \in Engines |-> EmptyMetrics]
    /\ pending_acks = [e \in Engines |-> {}]
    /\ expected_sequences = [e \in Engines |-> << >>]
    /\ received_sequences = [e \in Engines |-> {}]
    /\ last_sequence = [e \in Engines |-> -1]
    /\ tpc = [e \in Engines |-> "idle"]
    /\ loc = [e \in Engines |-> NoLocals]
    /\ wake = [e \in Engines |-> 0]
    /\ raised = [e \in Engines |-> {}]
    /\ preempts = 0
    /\ runs = [e \in Engines |-> 0]
    /\ link = [e \in Engines |-> << >>]
    /\ inbox = [e \in Engines |-> << >>]
    /\ handled = [e \in Engines |-> << >>]
    /\ is_paused = [e \in Engines |-> FALSE]
    /\ stop_event = [e \in Engines |-> FALSE]
    /\ pause_event = [e \in Engines |-> FALSE]
    /\ signals = [e \in Engines |-> NoSignals]
    /\ mpc = [e \in Engines |-> "idle"]
    /\ deadline = [e \in Engines |-> 0]
    /\ returned = NoCall

\* both engines as constructed: the defaults, no port open
EngIdle ==
    /\ EngFresh
    /\ mode = [e \in Engines |-> TRANSMITTER]
    /\ packet_size = [e \in Engines |-> 64]
    /\ transmission_rate = [e \in Engines |-> 10]
    /\ test_duration = [e \in Engines |-> 60]
    /\ handler = [e \in Engines |-> NewHandler]
    /\ lag = 0
    /\ wired = FALSE
    /\ link_delay = 0
    /\ calls = 0

CodecInit ==
    /\ epoch \in Epochs
    /\ clock = 0
    /\ sequence_counter \in SeqStarts
    /\ CodecIdle
    /\ ParseIdle
    /\ EngIdle

\* time passes between two calls
TickIdle ==
    /\ cpc = "idle"
    /\ clock < MaxCodecClock
    /\ clock' = clock + 1
    /\ UNCHANGED << epoch, codecVars, notCodec >>

\* time passes while the caller holds the packet and its frame
TickHeld ==
    /\ cpc = "serialized"
    /\ clock < MaxCodecClock
    /\ clock' = clock + 1
    /\ UNCHANGED << epoch, codecVars, notCodec >>

\* create_packet(ptype, payload)
DoCreate(ptype, payload) ==
    /\ cpc = "idle"
    /\ \E s0 \in SeqStarts : sequence_counter - s0 \in 0..(MaxCreates - 1)
    /\ packet' = CreatePacket(ptype, payload, sequence_counter, AbsTime(epoch, clock))
    /\ sequence_counter' = sequence_counter + 1
    /\ cpc' = "created"
    /\ UNCHANGED << notCodec, timeVars, wire, buf, decoded, tamper, flipped >>

Create ==
    \E ptype \in PacketType :
      \E payload \in Payloads(ptype, sequence_counter, AbsTime(epoch, clock)) :
        DoCreate(ptype, payload)

\* serialize_packet(packet); the frame goes into transit
Serialize ==
    /\ cpc \in {"created", "serialized"}
    /\ tamper = "none"
    /\ wire' = SerializePacket(packet)
    /\ buf' = wire'.bytes
    /\ cpc' = "serialized"
    /\ UNCHANGED << notCodec, timeVars, sequence_counter, packet, decoded, tamper, flipped >>

InTransit == cpc = "serialized" /\ wire.err = "" /\ tamper = "none"

\* one bit of the frame is flipped in transit
Corrupt ==
    /\ InTransit
    /\ \E i \in 0..((8 * Len(buf)) - 1) :
         /\ buf' = FlipBit(buf, i)
         /\ flipped' = i
    /\ tamper' = "flip"
    /\ UNCHANGED << notCodec, timeVars, sequence_counter, packet, wire, decoded, cpc >>

\* only the first k bytes of the frame arrive
Truncate ==
    /\ InTransit
    /\ \E k \in 0..(Len(buf) - 1) : buf' = SubSeq(buf, 1, k)
    /\ tamper' = "cut"
    /\ UNCHANGED << notCodec, timeVars, sequence_counter, packet, wire, decoded, flipped, cpc >>

\* a peer that speaks another dialect: a well-sealed frame of an unknown type
Retype ==
    /\ InTransit
    /\ \E t \in WrongTypes : buf' = Reseal(buf, 2, t)
    /\ tamper' = "type"
    /\ UNCHANGED << notCodec, timeVars, sequence_counter, packet, wire, decoded, flipped, cpc >>

\* a well-sealed frame that starts with another byte than the magic
Remagic ==
    /\ InTransit
    /\ \E m \in WrongMagics : buf' = Reseal(buf, 1, m)
    /\ tamper' = "magic"
    /\ UNCHANGED << notCodec, timeVars, sequence_counter, packet, wire, decoded, flipped, cpc >>

\* deserialize_packet(buf)
Deserialize ==
    /\ cpc = "serialized"
    /\ wire.err = ""
    /\ decoded' = DeserializePacket(buf)
    /\ cpc' = "decoded"
    /\ UNCHANGED << notCodec, timeVars, sequence_counter, packet, wire, buf, tamper, flipped >>

\* the caller drops the packet and the frame
Discard ==
    /\ cpc \in {"serialized", "decoded"}
    /\ packet' = NoPkt
    /\ wire' = Bytes(<< >>)
    /\ buf' = << >>
    /\ decoded' = None
    /\ tamper' = "none"
    /\ flipped' = -1
    /\ cpc' = "idle"
    /\ UNCHANGED << notCodec, timeVars, sequence_counter >>

\* the codec alone: create, serialize, deserialize
CodecNext ==
    \/ TickIdle
    \/ TickHeld
    \/ Create
    \/ Serialize
    \/ Deserialize
    \/ Discard

SpecCodec == CodecInit /\ [][CodecNext]_vars

\* the codec and a line that damages frames
WireNext ==
    \/ TickIdle
    \/ Create
    \/ Serialize
    \/ Corrupt
    \/ Truncate
    \/ Retype
    \/ Remagic
    \/ Deserialize
    \/ Discard

SpecWire == CodecInit /\ [][WireNext]_vars

(***************************************************************************)
(* Properties of the codec                                                 *)
(***************************************************************************)
\* the packet deserialize_packet returned equals p, the timestamp to the
\* millisecond
SamePacket(r, p) ==
    /\ r.kind = "packet"
    /\ r.pkt.packet_type = p.packet_type
    /\ r.pkt.sequence_id = p.sequence_id
    /\ r.pkt.payload = p.payload
    /\ TimestampMs(r.pkt.timestamp) = TimestampMs(p.timestamp)

\* C1: every created packet, whatever its type, payload length, sequence
\* counter and clock, is serialized without an exception, and deserializing
\* the frame returns a packet with the same type, sequence id and payload and
\* the same timestamp to the millisecond.
C1_RoundTrip ==
    /\ cpc = "serialized" => wire.err = ""
    /\ (cpc = "decoded" /\ tamper = "none") => SamePacket(decoded, packet)

\* the round trip of the packets whose sequence id and millisecond timestamp
\* fit their wire fields
RoundTripInRange ==
    /\ (cpc = "serialized" /\ packet.sequence_id <= 65535
          /\ packet.timestamp.hi <= 65535) => wire.err = ""
    /\ (cpc = "decoded" /\ tamper = "none") => SamePacket(decoded, packet)

\* the payload length a frame declares
DeclaredSize(f) == Unpack32(SubSeq(f, HEADER_FORMAT_SIZE + 1, HEADER_SIZE))

\* bit i lies in the payload length field
InSizeField(i) == (i \div 8) + 1 \in (HEADER_FORMAT_SIZE + 1)..HEADER_SIZE

\* the flipped frame declares a shorter payload, and the four bytes after the
\* shortened payload are the CRC-32 of what precedes them
SealedShorter(f, g) ==
    /\ DeclaredSize(g).hi = 0
    /\ DeclaredSize(g).lo < DeclaredSize(f).lo
    /\ Unpack32(SubSeq(g, HEADER_SIZE + DeclaredSize(g).lo + 1,
                       HEADER_SIZE + DeclaredSize(g).lo + FOOTER_SIZE))
         = Crc32(SubSeq(g, 1, HEADER_SIZE + DeclaredSize(g).lo))

\* C2 as stated: a frame with any single bit flipped, in whatever field, is
\* rejected by deserialize_packet.
C2_AnyFlipRejected ==
    (cpc = "decoded" /\ tamper = "flip") => decoded = None

\* C2 amended: a frame with a single bit flipped is rejected, unless the flip
\* clears a bit of the payload length field and the payload bytes that follow
\* the shortened payload are the CRC-32 of the shortened frame.
C2_FlipRejected ==
    (cpc = "decoded" /\ tamper = "flip") =>
        \/ decoded = None
        \/ InSizeField(flipped) /\ SealedShorter(wire.bytes, buf)

\* a flip that shortens the declared payload length and is rejected
C2_Witness ==
    /\ cpc = "decoded"
    /\ tamper = "flip"
    /\ InSizeField(flipped)
    /\ DeclaredSize(buf).lo < DeclaredSize(wire.bytes).lo
    /\ decoded = None

\* the failure cases of deserialize_packet
TooShort(b) == Len(b) < HEADER_SIZE + FOOTER_SIZE
BadMagic(b) == Len(b) >= 1 /\ b[1] # MAGIC_BYTE
Oversize(b) == Len(b) >= HEADER_SIZE /\ FrameExceeds(Len(b), DeclaredSize(b))
BadChecksum(b) ==
    /\ ~TooShort(b)
    /\ ~Oversize(b)
    /\ Unpack32(SubSeq(b, HEADER_SIZE + DeclaredSize(b).lo + 1,
                       HEADER_SIZE + DeclaredSize(b).lo + FOOTER_SIZE))
         # Crc32(SubSeq(b, 1, HEADER_SIZE + DeclaredSize(b).lo))
UnknownType(b) == Len(b) >= 2 /\ b[2] \notin PacketType
FailCase(b) ==
    TooShort(b) \/ BadMagic(b) \/ Oversize(b) \/ BadChecksum(b) \/ UnknownType(b)

\* C3: deserialize_packet never raises, changes neither the sequence counter
\* nor its input, and returns None when the buffer is too short, the magic is
\* wrong, the declared payload exceeds the buffer, the checksum does not match
\* or the type is unknown.
C3_DecodeFails ==
    [][(cpc # "decoded" /\ cpc' = "decoded") =>
          /\ sequence_counter' = sequence_counter
          /\ buf' = buf
          /\ decoded'.kind # "raise"
          /\ FailCase(buf) => decoded' = None]_vars

\* a well-sealed frame of an unknown type was handed to deserialize_packet
C3_Witness ==
    /\ cpc = "decoded"
    /\ tamper = "type"
    /\ ~TooShort(buf) /\ ~BadMagic(buf) /\ ~Oversize(buf) /\ ~BadChecksum(buf)
    /\ decoded = None

RECURSIVE FindFrom(_, _, _)
FindFrom(buffer, b, i) ==
    IF i > Len(buffer) THEN 0
    ELSE IF buffer[i] = b THEN i
    ELSE FindFrom(buffer, b, i + 1)

Find(buffer, b) == FindFrom(buffer, b, 1)

\* a reassembler that never waits for the rest of a frame
NeedMoreNever(n, payload_size) == FALSE

\* len(buffer) < total_packet_size: not enough data for a complete packet
NeedMore(n, payload_size) == FrameExceeds(n, payload_size)

\* _parse_buffer: the while loop, from a buffer and the packets emitted so far
\* to the buffer it leaves and the packets emitted
RECURSIVE ParseLoop(_, _)
ParseLoop(buffer, out) ==
    IF Len(buffer) < HEADER_SIZE + FOOTER_SIZE THEN [buffer |-> buffer, out |-> out]
    ELSE
      LET magic_index == Find(buffer, MAGIC_BYTE)
      IN  IF magic_index = 0 THEN [buffer |-> << >>, out |-> out]
          ELSE
            LET b == SubSeq(buffer, magic_index, Len(buffer))
            IN  IF Len(b) < HEADER_SIZE THEN [buffer |-> b, out |-> out]
                ELSE
                  LET payload_size ==
                          Unpack32(SubSeq(b, HEADER_FORMAT_SIZE + 1, HEADER_SIZE))
                      total_packet_size == HEADER_SIZE + payload_size.lo + FOOTER_SIZE
                  IN  IF NeedMore(Len(b), payload_size)
                      THEN [buffer |-> b, out |-> out]
                      ELSE
                        LET r == DeserializePacket(Slice(b, 1, total_packet_size))
                        IN  IF r.kind = "packet"
                            THEN ParseLoop(Slice(b, total_packet_size + 1, Len(b)),
                                           Append(out, r.pkt))
                            ELSE ParseLoop(Tail(b), out)

ParseBuffer(buffer) == ParseLoop(buffer, << >>)

\* a reassembler that drops the whole false frame when the decode fails
ParseStepDropsFrame(buffer) ==
    LET magic_index == Find(buffer, MAGIC_BYTE)
    IN  IF magic_index = 0 THEN [buffer |-> << >>, out |-> << >>, exit |-> TRUE]
        ELSE
          LET b == SubSeq(buffer, magic_index, Len(buffer))
          IN  IF Len(b) < HEADER_SIZE THEN [buffer |-> b, out |-> << >>, exit |-> TRUE]
              ELSE
                LET payload_size ==
                        Unpack32(SubSeq(b, HEADER_FORMAT_SIZE + 1, HEADER_SIZE))
                    total_packet_size == HEADER_SIZE + payload_size.lo + FOOTER_SIZE
                IN  IF NeedMore(Len(b), payload_size)
                    THEN [buffer |-> b, out |-> << >>, exit |-> TRUE]
                    ELSE
                      LET r == DeserializePacket(Slice(b, 1, total_packet_size))
                      IN  [buffer |-> Slice(b, total_packet_size + 1, Len(b)),
                           out |-> IF r.kind = "packet" THEN << r.pkt >> ELSE << >>,
                           exit |-> FALSE]

\* one iteration of the while loop of _parse_buffer, lines 139-184, entered
\* with len(buffer) >= HEADER_SIZE + FOOTER_SIZE: the buffer it leaves, the
\* packet it emits, and whether it leaves the loop by break
ParseStep(buffer) ==
    LET magic_index == Find(buffer, MAGIC_BYTE)
    IN  IF magic_index = 0 THEN [buffer |-> << >>, out |-> << >>, exit |-> TRUE]
        ELSE
          LET b == SubSeq(buffer, magic_index, Len(buffer))
          IN  IF Len(b) < HEADER_SIZE THEN [buffer |-> b, out |-> << >>, exit |-> TRUE]
              ELSE
                LET payload_size ==
                        Unpack32(SubSeq(b, HEADER_FORMAT_SIZE + 1, HEADER_SIZE))
                    total_packet_size == HEADER_SIZE + payload_size.lo + FOOTER_SIZE
                IN  IF NeedMore(Len(b), payload_size)
                    THEN [buffer |-> b, out |-> << >>, exit |-> TRUE]
                    ELSE
                      LET r == DeserializePacket(Slice(b, 1, total_packet_size))
                      IN  IF r.kind = "packet"
                          THEN [buffer |-> Slice(b, total_packet_size + 1, Len(b)),
                                out |-> << r.pkt >>, exit |-> FALSE]
                          ELSE [buffer |-> Tail(b), out |-> << >>, exit |-> FALSE]

(***************************************************************************)
(* The reassembler harness: garbage and two frames arrive in chunks        *)
(***************************************************************************)
\* longest garbage over the bytes 0x00 and the magic byte
MaxGarbage == 2

RECURSIVE Strings(_, _)
Strings(alphabet, n) ==
    IF n = 0 THEN {<< >>}
    ELSE LET shorter == Strings(alphabet, n - 1)
         IN  shorter \cup {Append(x, a) : x \in shorter, a \in alphabet}

\* noise: short strings with and without the magic byte, and a run of zeros
\* as long as the smallest frame
Garbage ==
    Strings({0, MAGIC_BYTE}, MaxGarbage)
      \cup {[i \in 1..(HEADER_SIZE + FOOTER_SIZE) |-> 0]}

\* the frame of a packet whose fields fit
FrameOf(p) == SerializePacket(p).bytes

\* packets a peer sends: DATA (one with magic bytes in its payload), ACK, HEARTBEAT
LinePackets ==
    { Packet(DATA, 0, AbsTime(EarlyEpoch, 0), Filler(2)),
      Packet(DATA, 1, AbsTime(EarlyEpoch, 1), << MAGIC_BYTE, MAGIC_BYTE >>),
      Packet(ACK, 2, AbsTime(EarlyEpoch, TicksPerMs), PackU32(0)),
      Packet(HEARTBEAT, 3, AbsTime(EarlyEpoch, 0), << >>) }

\* the packet as it is after a round trip (the timestamp cut to the millisecond)
OnWire(p) == [p EXCEPT !.timestamp.sub = 0]

ParseInit ==
    /\ epoch = EarlyEpoch
    /\ clock = 0
    /\ sequence_counter = 0
    /\ CodecIdle
    /\ \E g \in Garbage : \E p1 \in LinePackets : \E p2 \in LinePackets :
         /\ input = [g |-> g, f1 |-> FrameOf(p1), f2 |-> FrameOf(p2)]
         /\ line = g \o FrameOf(p1) \o FrameOf(p2)
    /\ rxbuf = << >>
    /\ emitted = << >>
    /\ bytes_received = 0
    /\ EngIdle

\* one turn of _receive_loop with in_waiting = k: read, extend, _parse_buffer
Receive(k) ==
    LET data == SubSeq(line, 1, k)
        parsed == ParseBuffer(rxbuf \o data)
    IN  /\ line' = SubSeq(line, k + 1, Len(line))
        /\ bytes_received' = bytes_received + k
        /\ rxbuf' = parsed.buffer
        /\ emitted' = emitted \o parsed.out
        /\ UNCHANGED << input, timeVars, notParse >>

ReceiveChunk == \E k \in 1..Len(line) : Receive(k)

ParseNext == ReceiveChunk

SpecParse == ParseInit /\ [][ParseNext]_vars

(***************************************************************************)
(* The reassembler, one iteration of its loop at a time                    *)
(***************************************************************************)
\* the frame f as it arrives: whole, with a bit of its checksum flipped, or
\* well sealed with a type that is no PacketType
Arrivals(f) == {f, FlipBit(f, (8 * Len(f)) - 1), Reseal(f, 2, 0)}

\* garbage and two frames, the first maybe damaged, were read in one chunk
IterInit ==
    /\ epoch = EarlyEpoch
    /\ clock = 0
    /\ sequence_counter = 0
    /\ CodecIdle
    /\ \E g \in Garbage : \E p1 \in LinePackets : \E p2 \in LinePackets :
         \E f1 \in Arrivals(FrameOf(p1)) :
           /\ input = [g |-> g, f1 |-> f1, f2 |-> FrameOf(p2)]
           /\ rxbuf = g \o f1 \o FrameOf(p2)
           /\ bytes_received = Len(g) + Len(f1) + Len(FrameOf(p2))
    /\ line = << >>
    /\ emitted = << >>
    /\ EngIdle

\* the loop has ended: the while condition fails, or the iteration was left
\* by break with the buffer as it is
LoopEnded ==
    \/ Len(rxbuf) < HEADER_SIZE + FOOTER_SIZE
    \/ ParseStep(rxbuf) = [buffer |-> rxbuf, out |-> << >>, exit |-> TRUE]

\* one iteration of the loop of _parse_buffer
ParseIterate ==
    /\ ~LoopEnded
    /\ rxbuf' = ParseStep(rxbuf).buffer
    /\ emitted' = emitted \o ParseStep(rxbuf).out
    /\ UNCHANGED << input, line, bytes_received, timeVars, notParse >>

IterNext == ParseIterate

SpecIter == IterInit /\ [][IterNext]_vars
\* the thread that runs _parse_buffer is scheduled: weak fairness of
\* ParseIterate, which is enabled exactly when the loop has not ended
IterFairness == ([]<>LoopEnded) \/ ([]<><<ParseIterate>>_vars)
SpecIterFair == SpecIter /\ IterFairness

\* the packets of the two frames
Expected == << DeserializePacket(input.f1).pkt, DeserializePacket(input.f2).pkt >>

\* C5: once garbage + f1 + f2 has arrived, in whatever chunks, exactly the
\* packets of f1 and f2 have been emitted, in that order.
C5_Resync ==
    line = << >> => emitted = Expected

\* the same for garbage that holds no magic byte
ResyncCleanGarbage ==
    (line = << >> /\ Find(input.g, MAGIC_BYTE) = 0) => emitted = Expected

\* the buffer from its first magic byte on
FromMagic(buffer) ==
    IF Find(buffer, MAGIC_BYTE) = 0 THEN << >>
    ELSE SubSeq(buffer, Find(buffer, MAGIC_BYTE), Len(buffer))
\* the frame f begins with the magic byte, is as long as it declares and ends
\* with the checksum of what comes before
ValidFrame(f) ==
    /\ Len(f) >= HEADER_SIZE + FOOTER_SIZE
    /\ f[1] = MAGIC_BYTE
    /\ Unpack32(SubSeq(f, HEADER_FORMAT_SIZE + 1, HEADER_SIZE))
         = [hi |-> 0, lo |-> Len(f) - (HEADER_SIZE + FOOTER_SIZE)]
    /\ Bytes32(Crc32(SubSeq(f, 1, Len(f) - FOOTER_SIZE)))
         = SubSeq(f, Len(f) - FOOTER_SIZE + 1, Len(f))
\* the iteration emitted the packet of the first n bytes from the magic byte
\* on, a valid frame, and removed the buffer up to the end of those
EmitsFrame(n) ==
    /\ n <= Len(FromMagic(rxbuf))
    /\ ValidFrame(SubSeq(FromMagic(rxbuf), 1, n))
    /\ emitted' = Append(emitted, DeserializePacket(SubSeq(FromMagic(rxbuf), 1, n)).pkt)
    /\ rxbuf' = SubSeq(FromMagic(rxbuf), n + 1, Len(FromMagic(rxbuf)))
\* the decode failed: the iteration removed the buffer up to and with the
\* magic byte, and nothing more
DropsMagic ==
    /\ FromMagic(rxbuf) # << >>
    /\ emitted' = emitted
    /\ rxbuf' = Tail(FromMagic(rxbuf))
\* the iteration left the loop, with an empty buffer or with the buffer from
\* its magic byte on
Exits ==
    /\ emitted' = emitted
    /\ rxbuf' = FromMagic(rxbuf)
    /\ \/ Len(rxbuf') < HEADER_SIZE + FOOTER_SIZE
       \/ ParseStep(rxbuf') = [buffer |-> rxbuf', out |-> << >>, exit |-> TRUE]

\* C32: _parse_buffer terminates on every finite buffer and makes progress:
\* each iteration of its loop emits one packet and removes that frame's
\* bytes, or removes at least one byte (exactly one after a failed decode,
\* the magic byte of the false frame), or leaves the loop; a packet emitted
\* is a frame whose magic byte, declared length and checksum are valid.
C32_Progress ==
    /\ [][/\ (\E n \in 1..Len(rxbuf) : EmitsFrame(n)) \/ DropsMagic \/ Exits
          /\ Len(rxbuf') < Len(rxbuf)]_vars
    /\ <>[]LoopEnded

\* a damaged frame was dropped byte by byte and the frame after it emitted
C32_Witness ==
    /\ LoopEnded
    /\ input.f1 \notin {FrameOf(q) : q \in LinePackets}
    /\ Len(emitted) = 1
    /\ rxbuf = << >>

\* the iterations together leave what _parse_buffer leaves
IterationsAgree ==
    ParseBuffer(input.g \o input.f1 \o input.f2)
      = [buffer |-> ParseBuffer(rxbuf).buffer,
         out |-> emitted \o ParseBuffer(rxbuf).out]

\* the buffer is the first bytes of frame f, header included, the frame is
\* not complete, and the rest of it is what arrives next
Held(f) ==
    /\ Len(rxbuf) >= HEADER_SIZE
    /\ Len(rxbuf) < Len(f)
    /\ rxbuf = SubSeq(f, 1, Len(rxbuf))
    /\ Len(line) >= Len(f) - Len(rxbuf)
    /\ SubSeq(line, 1, Len(f) - Len(rxbuf)) = SubSeq(f, Len(rxbuf) + 1, Len(f))

\* C6: while the buffer starts with a valid header but the frame is not
\* complete, _parse_buffer emits nothing and removes nothing, also after a
\* chunk that does not complete the frame; the chunk that brings exactly the
\* remaining bytes makes it emit exactly that frame's packet.
C6_Truncation ==
    [][\A f \in {input.f1, input.f2} :
          Held(f) =>
            LET rest == Len(f) - Len(rxbuf)
                k == Len(line) - Len(line')
            IN  /\ ParseBuffer(rxbuf) = [buffer |-> rxbuf, out |-> << >>]
                /\ k < rest =>
                     /\ rxbuf' = rxbuf \o SubSeq(line, 1, k)
                     /\ emitted' = emitted
                /\ k = rest =>
                     /\ rxbuf' = << >>
                     /\ emitted' = Append(emitted, DeserializePacket(f).pkt)]_vars

\* the second frame is held incomplete, payload begun, after the first was emitted
C6_Witness ==
    /\ Len(emitted) = 1
    /\ Held(input.f2)
    /\ Len(rxbuf) > HEADER_SIZE
    /\ Len(line) > 0

(***************************************************************************)
(* The engines: what their code computes                                   *)
(***************************************************************************)
\* self.heartbeat_interval, in seconds
heartbeat_interval == 5
\* the default of _check_ack_timeouts' timeout parameter, in seconds
ack_timeout == 5

\* a - b in clock ticks for two wall-clock times; a difference of more than
\* two turns of the low half is kept as FarApart
FarApart == 2 * 65536 * TicksPerMs
TimeDiff(a, b) ==
    LET dh == a.hi - b.hi
    IN  IF dh > 1 THEN FarApart
        ELSE IF dh < -1 THEN 0 - FarApart
        ELSE (((dh * 65536) + (a.lo - b.lo)) * TicksPerMs) + (a.sub - b.sub)

\* 1.0 / self.transmission_rate
PacketInterval(rate) == Seconds(1) \div rate

\* an entry of metrics.errors: f"{text}: seq={seq}"
ErrorEntry(text, seq) == [text |-> text, seq |-> seq]

\* get_acked_sequence: the id as two halves, or none
NoSeq == [some |-> FALSE, hi |-> 0, lo |-> 0]
GetAckedSequence(ack_packet) ==
    IF ack_packet.packet_type # ACK \/ Len(ack_packet.payload) < 4 THEN NoSeq
    ELSE LET v == Unpack32(SubSeq(ack_packet.payload, 1, 4))
         IN  [some |-> TRUE, hi |-> v.hi, lo |-> v.lo]

\* lines 96-109 of send_packet once serialize_packet returned or raised
Written(h, p, data) ==
    IF data.err # ""
    THEN [ret |-> FALSE, err |-> data.err, handler |-> h, out |-> << >>, packet |-> p]
    ELSE IF ~h.writable
    THEN [ret |-> FALSE, err |-> "",
          handler |-> [h EXCEPT !.error_occurred = @ + 1],
          out |-> << >>, packet |-> p]
    ELSE [ret |-> TRUE, err |-> "",
          handler |-> [h EXCEPT !.bytes_sent = @ + Len(data.bytes),
                                !.packets_sent = @ + 1],
          out |-> << data.bytes >>, packet |-> p]

\* SerialHandler.send_packet: what it returns or raises, the handler after
\* it, and the frames it wrote
SendPacket(h, p) ==
    IF ~h.is_connected
    THEN [ret |-> FALSE, err |-> "", handler |-> h, out |-> << >>, packet |-> p]
    ELSE Written(h, p, SerializePacket(p))

\* protocol.create_packet(ptype, payload) and then send_packet of it
CreateAndSend(h, ptype, payload, now) ==
    SendPacket([h EXCEPT !.sequence_counter = @ + 1,
                         !.created = Append(@, h.sequence_counter)],
               CreatePacket(ptype, payload, h.sequence_counter, AbsTime(epoch, now)))

\* the keys of pending_acks
Keys(pend) == {r.seq : r \in pend}
\* pending_acks[seq] = sent
Put(pend, seq, sent) == {r \in pend : r.seq # seq} \cup {[seq |-> seq, sent |-> sent]}

\* the elements of a set of numbers, smallest first
RECURSIVE Ascending(_)
Ascending(S) ==
    IF S = {} THEN << >>
    ELSE LET least == CHOOSE x \in S : \A y \in S : x <= y
         IN  << least >> \o Ascending(S \ {least})

\* a sweep that forgets to delete what it counted
RemainingAll(pend, timed_out) == pend

\* del self.pending_acks[seq_id] for every timed-out id
Remaining(pend, timed_out) == {r \in pend : r.seq \notin timed_out}

\* lines 360-363 of _check_ack_timeouts: the ids found older than timeout
TimedOut(pend, current_time, timeout) ==
    {r.seq : r \in {q \in pend : current_time - q.sent > timeout}}

\* how many ids of order are deleted before one is found missing
Deleted(order, keys) ==
    LET missing == {i \in 1..Len(order) : order[i] \notin keys}
    IN  IF missing = {} THEN Len(order)
        ELSE (CHOOSE i \in missing : \A j \in missing : i <= j) - 1

\* a sweep that counts what timed out and leaves it in pending_acks
SweepKeeps(pend, m, timed_out) ==
    LET order == Ascending(timed_out)
        n == Deleted(order, Keys(pend))
    IN  [pending_acks |-> pend,
         metrics |-> [m EXCEPT !.packets_lost = @ + n,
                               !.errors = @ \o [i \in 1..n |->
                                                ErrorEntry("ACK timeout", order[i])]],
         err |-> IF n = Len(order) THEN "" ELSE "KeyError"]

\* lines 365-368 of _check_ack_timeouts on the pending_acks of that moment:
\* the ids are deleted and counted in the order the dict was walked, which is
\* the order of the ids; del raises KeyError on an id that is gone
SweepDeletes(pend, m, timed_out) ==
    LET order == Ascending(timed_out)
        n == Deleted(order, Keys(pend))
    IN  [pending_acks |-> Remaining(pend, {order[i] : i \in 1..n}),
         metrics |-> [m EXCEPT !.packets_lost = @ + n,
                               !.errors = @ \o [i \in 1..n |->
                                                ErrorEntry("ACK timeout", order[i])]],
         err |-> IF n = Len(order) THEN "" ELSE "KeyError"]

\* one missing-packet entry too many
LostCountOver(sequence_id, last) == sequence_id - last

\* lost_count = packet.sequence_id - self.last_sequence - 1
LostCount(sequence_id, last) == sequence_id - last - 1

\* a gap check that counts from the start of the run whatever was seen
GapFromStart(m, sequence_id, last) ==
    IF sequence_id > last + 1
    THEN [m EXCEPT !.packets_lost = @ + sequence_id,
                   !.errors = @ \o [i \in 1..sequence_id |->
                                    ErrorEntry("Missing packet", i - 1)]]
    ELSE m

\* the gap check of _handle_data_packet_receiver on metrics m: one entry for
\* every id of range(last + 1, sequence_id)
GapAccounted(m, sequence_id, last) ==
    IF sequence_id > last + 1
    THEN [m EXCEPT !.packets_lost = @ + LostCount(sequence_id, last),
                   !.errors = @ \o [i \in 1..(sequence_id - last - 1) |->
                                    ErrorEntry("Missing packet", last + i)]]
    ELSE m

\* a tracker that follows the id of the last packet
MaxLast(a, b) == b

\* max(a, b)
Max(a, b) == IF a > b THEN a ELSE b

(***************************************************************************)
(* The engines: start_test and the test thread                             *)
(***************************************************************************)
\* test runs one engine starts
MaxRuns == 1

\* an unhandled exception in a slot ends the process unless a hook takes it
Alive(e) == "abort" \notin raised[e]

\* serial_connection.write: the frames reach the peer after link_delay
Post(e, frames) ==
    IF wired
    THEN [link EXCEPT ![Other(e)] =
            @ \o [i \in 1..Len(frames) |->
                    [due |-> clock + link_delay, bytes |-> frames[i]]]]
    ELSE link

\* a start_test that starts whatever the engine is doing
StartAllowedAlways(e) == TRUE

\* a reset that keeps the count of the packets sent
ResetKeepsSent(m) == [EmptyMetrics EXCEPT !.packets_sent = m.packets_sent]

\* lines 372-382 of _reset_metrics
ResetMetrics(m) == EmptyMetrics

\* line 129 of start_test: no test is running and the port is open
StartAllowed(e) == ~is_running[e] /\ handler[e].is_connected

\* lines 133-144 of start_test: _reset_metrics, the flags, the thread, the
\* started signal
\* line 141 gives test_thread a new Thread: the thread of the test before,
\* when it is still inside serial_connection.write, runs on with its locals,
\* and nothing refers to it any more
Orphaned(e) ==
    IF tpc[e] = "write" THEN [pc |-> "write", loc |-> loc[e]]
    ELSE handler[e].stale

Started(e) ==
    /\ runs' = [runs EXCEPT ![e] = @ + 1]
    /\ handler' = [handler EXCEPT ![e].stale = Orphaned(e)]
    /\ metrics' = [metrics EXCEPT ![e] = ResetMetrics(@)]
    /\ pending_acks' = [pending_acks EXCEPT ![e] = {}]
    /\ expected_sequences' = [expected_sequences EXCEPT ![e] = << >>]
    /\ received_sequences' = [received_sequences EXCEPT ![e] = {}]
    /\ last_sequence' = [last_sequence EXCEPT ![e] = -1]
    /\ handled' = [handled EXCEPT ![e] = << >>]
    /\ is_running' = [is_running EXCEPT ![e] = TRUE]
    /\ is_paused' = [is_paused EXCEPT ![e] = FALSE]
    /\ stop_event' = [stop_event EXCEPT ![e] = FALSE]
    /\ pause_event' = [pause_event EXCEPT ![e] = FALSE]
    /\ signals' = [signals EXCEPT ![e].started = @ + 1]
    /\ tpc' = [tpc EXCEPT ![e] = "begin"]
    /\ UNCHANGED << timeVars, notEngine, configVars, loc, wake, lag,
                    raised, wired, link_delay, preempts, linkVars, mpc, deadline >>

\* start_test accepted, as the first thing the user does
StartTest(e) ==
    /\ Alive(e)
    /\ mpc[e] = "idle"
    /\ StartAllowed(e)
    /\ runs[e] < MaxRuns
    /\ Started(e)
    /\ UNCHANGED << calls, returned >>

\* _test_loop up to the first test of the loop it enters
TestLoopBegin(e) ==
    /\ Alive(e)
    /\ tpc[e] = "begin"
    /\ metrics' = [metrics EXCEPT ![e].start_time = clock]
    /\ loc' = [loc EXCEPT ![e] =
                 [current_time |-> NoStamp, last_heartbeat |-> clock,
                  last_bandwidth_calc |-> clock, bytes_at_last_calc |-> 0,
                  next_packet_time |-> IF mode[e] = TRANSMITTER THEN clock
                                       ELSE NoStamp,
                  sequence_id |-> -1, timed_out |-> {}]]
    /\ wake' = [wake EXCEPT ![e] = clock]
    /\ tpc' = [tpc EXCEPT ![e] = "top"]
    /\ UNCHANGED << timeVars, notEngine, configVars, ctlVars, is_running, trackVars,
                    handler, lag, raised, wired, link_delay, preempts, runs,
                    linkVars, handled >>

\* lines 229-230: the heartbeat was created and sent as s tells
Beaten(l, current_time, s) ==
    [handler |-> s.handler, out |-> s.out, err |-> s.err,
     loc |-> [l EXCEPT !.last_heartbeat = current_time]]

\* the heartbeat of either loop at current_time: the handler and locals after
\* it, what it wrote, what it raised
Heartbeat(e, l, current_time) ==
    IF current_time - l.last_heartbeat >= Seconds(heartbeat_interval)
    THEN Beaten(l, current_time, CreateAndSend(handler[e], HEARTBEAT, << >>, clock))
    ELSE [handler |-> handler[e], out |-> << >>, err |-> "", loc |-> l]

\* line 238 on: send_packet of the DATA packet raised, returned True or False
DataSent(e, hb, dp) ==
    IF dp.err # ""
    THEN [to |-> "crashed", handler |-> dp.handler, loc |-> hb.loc, out |-> hb.out]
    ELSE IF dp.ret
    THEN [to |-> "account", handler |-> dp.handler,
          loc |-> [hb.loc EXCEPT !.sequence_id = dp.packet.sequence_id],
          out |-> hb.out \o dp.out]
    ELSE [to |-> "tail", handler |-> dp.handler,
          loc |-> [hb.loc EXCEPT !.next_packet_time =
                                    @ + PacketInterval(transmission_rate[e])],
          out |-> hb.out]

\* lines 233-238 after the heartbeat hb
DataDue(e, l0, current_time, hb) ==
    IF hb.err # ""
    THEN [to |-> "crashed", handler |-> hb.handler, loc |-> l0, out |-> << >>]
    ELSE IF current_time < hb.loc.next_packet_time
    THEN [to |-> "tail", handler |-> hb.handler, loc |-> hb.loc, out |-> hb.out]
    ELSE DataSent(e, hb, CreateAndSend(hb.handler, DATA, Filler(packet_size[e]),
                                       clock))

\* elapsed_time >= self.test_duration
Expired(e, current_time) ==
    current_time - metrics[e].start_time >= Seconds(test_duration[e])

\* time.sleep(0.1) of the pause loop and of the receiver loop
LongSleep == 100 * TicksPerMs

\* a pause loop that does not look at stop_event
PauseHoldsStopped(e) == pause_event[e]

\* the test of the pause loop (lines 223 and 272)
PauseHolds(e) == pause_event[e] /\ ~stop_event[e]

\* lines 213-238 of _transmitter_loop: where the thread goes next, and with what
TransmitterStep(e, l0) ==
    IF stop_event[e]
    THEN [to |-> "done", handler |-> handler[e], loc |-> loc[e], out |-> << >>]
    ELSE IF Expired(e, l0.current_time)
    THEN [to |-> "done", handler |-> handler[e], loc |-> l0, out |-> << >>]
    ELSE IF PauseHolds(e)
    THEN [to |-> "paused", handler |-> handler[e], loc |-> l0, out |-> << >>]
    ELSE IF calls > 0
    THEN [to |-> "go", handler |-> handler[e], loc |-> l0, out |-> << >>]
    ELSE DataDue(e, l0, l0.current_time, Heartbeat(e, l0, l0.current_time))

\* what the end of the thread's step leaves in the engine: line 199 of
\* _test_loop after the loop returned, or the exception that ended the thread
ThreadMoves(e, to) ==
    /\ tpc' = [tpc EXCEPT ![e] = IF to = "done" THEN "final" ELSE to]
    /\ metrics' = IF to = "done" THEN [metrics EXCEPT ![e].end_time = clock]
                  ELSE metrics
    /\ is_running' = is_running
    /\ raised' = IF to = "crashed" THEN [raised EXCEPT ![e] = @ \cup {"loop"}]
                 ELSE raised

\* the engine after the step r of its transmitter loop
TransmitterMoves(e, r) ==
    /\ ThreadMoves(e, r.to)
    /\ handler' = [handler EXCEPT ![e] = r.handler]
    /\ loc' = [loc EXCEPT ![e] = r.loc]
    /\ link' = Post(e, r.out)
    /\ wake' = IF r.to = "paused" THEN [wake EXCEPT ![e] = clock + LongSleep + lag]
               ELSE wake

\* one turn of _transmitter_loop up to the return of send_packet, or up to
\* the first sleep of the pause loop; while the user has calls to make the
\* turn is taken in two steps, up to the pause loop and from it
TransmitterHead(e) ==
    /\ Alive(e)
    /\ tpc[e] = "top"
    /\ mode[e] = TRANSMITTER
    /\ wake[e] <= clock
    /\ TransmitterMoves(e, TransmitterStep(e, [loc[e] EXCEPT !.current_time = clock]))
    /\ UNCHANGED << timeVars, notEngine, configVars, ctlVars, trackVars, lag, wired,
                    link_delay, preempts, runs, inbox, handled >>

\* the thread sleeps once more in the pause loop
PauseLoopSleeps(e) ==
    /\ wake' = [wake EXCEPT ![e] = clock + LongSleep + lag]
    /\ UNCHANGED << tpc, metrics, is_running, raised, handler, loc, link >>

\* lines 223-238 after a sleep of the pause loop: it sleeps again, or goes on
\* with the current_time it read before the pause
TransmitterPaused(e) ==
    /\ Alive(e)
    /\ tpc[e] = "paused"
    /\ mode[e] = TRANSMITTER
    /\ wake[e] <= clock
    /\ IF PauseHolds(e)
       THEN PauseLoopSleeps(e)
       ELSE TransmitterMoves(e, DataDue(e, loc[e], loc[e].current_time,
                                        Heartbeat(e, loc[e], loc[e].current_time)))
    /\ UNCHANGED << timeVars, notEngine, configVars, ctlVars, trackVars, lag, wired,
                    link_delay, preempts, runs, inbox, handled >>

\* lines 226-238 of a turn that found the pause loop open
TransmitterGo(e) ==
    /\ Alive(e)
    /\ tpc[e] = "go"
    /\ TransmitterMoves(e, DataDue(e, loc[e], loc[e].current_time,
                                   Heartbeat(e, loc[e], loc[e].current_time)))
    /\ UNCHANGED << timeVars, notEngine, configVars, ctlVars, trackVars, lag, wired,
                    link_delay, preempts, runs, inbox, handled >>

\* lines 239-244: the send is counted and entered in pending_acks
TransmitterAccount(e) ==
    /\ Alive(e)
    /\ tpc[e] = "account"
    /\ metrics' = [metrics EXCEPT ![e].packets_sent = @ + 1,
                                  ![e].bytes_transmitted = @ + packet_size[e]]
    /\ pending_acks' = [pending_acks EXCEPT ![e] =
                          Put(@, loc[e].sequence_id, loc[e].current_time)]
    /\ expected_sequences' = [expected_sequences EXCEPT ![e] =
                                Append(@, loc[e].sequence_id)]
    /\ loc' = [loc EXCEPT ![e].next_packet_time =
                            @ + PacketInterval(transmission_rate[e])]
    /\ tpc' = [tpc EXCEPT ![e] = "tail"]
    /\ UNCHANGED << timeVars, notEngine, configVars, ctlVars, is_running,
                    received_sequences, last_sequence, handler, wake, lag, raised,
                    wired, link_delay, preempts, runs, linkVars, handled >>

\* the bandwidth sample of either loop: bytes over ticks
Bandwidth(e, l, current_time) ==
    [bytes |-> metrics[e].bytes_transmitted - l.bytes_at_last_calc,
     ticks |-> current_time - l.last_bandwidth_calc]

\* lines 247-253 and 360-363: bandwidth, then the sweep finds what timed out;
\* with nothing timed out the sweep is over and the thread sleeps (line 258)
TransmitterTail(e) ==
    /\ Alive(e)
    /\ tpc[e] = "tail"
    /\ LET current_time == loc[e].current_time
           calc == current_time - loc[e].last_bandwidth_calc >= Seconds(1)
           timed_out == TimedOut(pending_acks[e], current_time, Seconds(ack_timeout))
       IN  /\ metrics' = IF calc
                         THEN [metrics EXCEPT ![e].bandwidth_samples =
                                 Append(@, Bandwidth(e, loc[e], current_time))]
                         ELSE metrics
           /\ loc' = IF calc
                     THEN [loc EXCEPT ![e].last_bandwidth_calc = current_time,
                                      ![e].bytes_at_last_calc =
                                          metrics[e].bytes_transmitted,
                                      ![e].timed_out = timed_out]
                     ELSE [loc EXCEPT ![e].timed_out = timed_out]
           /\ wake' = IF timed_out = {}
                      THEN [wake EXCEPT ![e] = clock + TicksPerMs + lag]
                      ELSE wake
           /\ tpc' = [tpc EXCEPT ![e] = IF timed_out = {} THEN "top" ELSE "sweep"]
    /\ UNCHANGED << timeVars, notEngine, configVars, ctlVars, is_running, trackVars,
                    handler, lag, raised, wired, link_delay, preempts, runs,
                    linkVars, handled >>

\* lines 365-368 and 258: the sweep deletes and counts what it found, then the
\* thread sleeps; a KeyError ends the thread
TransmitterSweep(e) ==
    /\ Alive(e)
    /\ tpc[e] = "sweep"
    /\ LET swept == SweepDeletes(pending_acks[e], metrics[e], loc[e].timed_out)
       IN  /\ metrics' = [metrics EXCEPT ![e] = swept.metrics]
           /\ pending_acks' = [pending_acks EXCEPT ![e] = swept.pending_acks]
           /\ tpc' = [tpc EXCEPT ![e] = IF swept.err = "" THEN "top" ELSE "crashed"]
           /\ raised' = IF swept.err = "" THEN raised
                        ELSE [raised EXCEPT ![e] = @ \cup {"loop", "sweep"}]
           /\ wake' = IF swept.err = ""
                      THEN [wake EXCEPT ![e] = clock + TicksPerMs + lag]
                      ELSE wake
    /\ loc' = [loc EXCEPT ![e].timed_out = {}]
    /\ UNCHANGED << timeVars, notEngine, configVars, ctlVars, is_running,
                    expected_sequences, received_sequences, last_sequence,
                    handler, lag, wired, link_delay, preempts, runs,
                    linkVars, handled >>

\* the engine after a turn of _receiver_loop that saw the test over, or sent
\* the heartbeat as hb tells
ReceiverMoves(e, l0, over, hb, calc, sample) ==
    /\ tpc' = [tpc EXCEPT ![e] = IF over THEN "final"
                                 ELSE IF hb.err # "" THEN "crashed" ELSE "top"]
    /\ is_running' = is_running
    /\ raised' = IF ~over /\ hb.err # "" THEN [raised EXCEPT ![e] = @ \cup {"loop"}]
                 ELSE raised
    /\ metrics' =
         IF over THEN [metrics EXCEPT ![e].end_time = clock]
         ELSE IF hb.err = "" /\ calc /\ sample.bytes > 0
         THEN [metrics EXCEPT ![e].bandwidth_samples = Append(@, sample)]
         ELSE metrics
    /\ handler' = IF over THEN handler ELSE [handler EXCEPT ![e] = hb.handler]
    /\ link' = IF over \/ hb.err # "" THEN link ELSE Post(e, hb.out)
    /\ loc' = IF over \/ hb.err # "" THEN [loc EXCEPT ![e] = l0]
              ELSE IF calc
              THEN [loc EXCEPT ![e] =
                      [hb.loc EXCEPT !.last_bandwidth_calc = l0.current_time,
                                     !.bytes_at_last_calc =
                                         metrics[e].bytes_transmitted]]
              ELSE [loc EXCEPT ![e] = hb.loc]
    /\ wake' = IF ~over /\ hb.err = ""
               THEN [wake EXCEPT ![e] = clock + LongSleep + lag]
               ELSE wake

\* one turn of _receiver_loop that is not held in the pause loop
ReceiverTurn(e, l0, hb) ==
    ReceiverMoves(e, l0,
                  stop_event[e] \/ Expired(e, l0.current_time),
                  hb,
                  l0.current_time - hb.loc.last_bandwidth_calc >= Seconds(1),
                  Bandwidth(e, hb.loc, l0.current_time))

\* lines 262-273: the turn reaches the pause loop and sleeps in it
ReceiverWaits(e) ==
    /\ tpc' = [tpc EXCEPT ![e] = "paused"]
    /\ loc' = [loc EXCEPT ![e].current_time = clock]
    /\ wake' = [wake EXCEPT ![e] = clock + LongSleep + lag]
    /\ UNCHANGED << metrics, is_running, raised, handler, link >>

\* lines 276-277 and 43-48 of create_packet: the heartbeat is due and its
\* packet is built with the counter as it is, the counter not yet incremented
ReceiverCreates(e) ==
    /\ tpc' = [tpc EXCEPT ![e] = "create"]
    /\ loc' = [loc EXCEPT ![e].current_time = clock,
                          ![e].sequence_id = handler[e].sequence_counter]
    /\ UNCHANGED << metrics, is_running, raised, handler, link, wake >>

\* one turn of _receiver_loop, up to the first sleep of the pause loop if
\* paused, and up to the increment of the counter if the heartbeat is due
ReceiverLoop(e) ==
    /\ Alive(e)
    /\ tpc[e] = "top"
    /\ mode[e] = RECEIVER
    /\ wake[e] <= clock
    /\ IF ~stop_event[e] /\ ~Expired(e, clock) /\ PauseHolds(e)
       THEN ReceiverWaits(e)
       ELSE IF /\ ~stop_event[e]
               /\ ~Expired(e, clock)
               /\ clock - loc[e].last_heartbeat >= Seconds(heartbeat_interval)
       THEN ReceiverCreates(e)
       ELSE ReceiverTurn(e, [loc[e] EXCEPT !.current_time = clock],
                         Heartbeat(e, [loc[e] EXCEPT !.current_time = clock], clock))
    /\ UNCHANGED << timeVars, notEngine, configVars, ctlVars, trackVars, lag, wired,
                    link_delay, preempts, runs, inbox, handled >>

\* lines 276-291 after the pause loop, with the current_time read before it
ReceiverResumes(e, l0, hb) ==
    ReceiverMoves(e, l0, FALSE, hb,
                  l0.current_time - l0.last_bandwidth_calc >= Seconds(1),
                  Bandwidth(e, l0, l0.current_time))

\* line 49 of create_packet and lines 278-279: the counter is incremented
\* and the heartbeat, built with the id read before, is sent
HeartbeatCreated(e, l) ==
    Beaten(l, l.current_time,
           SendPacket([handler[e] EXCEPT !.sequence_counter = @ + 1,
                                         !.created = Append(@, l.sequence_id)],
                      CreatePacket(HEARTBEAT, << >>, l.sequence_id,
                                   AbsTime(epoch, clock))))

\* the rest of the turn that built a heartbeat: lines 49 and 278-291
ReceiverCreated(e) ==
    /\ Alive(e)
    /\ tpc[e] = "create"
    /\ ReceiverResumes(e, loc[e], HeartbeatCreated(e, loc[e]))
    /\ UNCHANGED << timeVars, notEngine, configVars, ctlVars, trackVars, lag, wired,
                    link_delay, preempts, runs, inbox, handled >>

\* lines 272-291 after a sleep of the pause loop
ReceiverPaused(e) ==
    /\ Alive(e)
    /\ tpc[e] = "paused"
    /\ mode[e] = RECEIVER
    /\ wake[e] <= clock
    /\ IF PauseHolds(e)
       THEN PauseLoopSleeps(e)
       ELSE ReceiverResumes(e, loc[e], Heartbeat(e, loc[e], loc[e].current_time))
    /\ UNCHANGED << timeVars, notEngine, configVars, ctlVars, trackVars, lag, wired,
                    link_delay, preempts, runs, inbox, handled >>

\* lines 200-206 of _test_loop: is_running is cleared and test_stopped emitted
TestLoopEnd(e) ==
    /\ Alive(e)
    /\ tpc[e] = "final"
    /\ is_running' = [is_running EXCEPT ![e] = FALSE]
    /\ signals' = [signals EXCEPT ![e].stopped = @ + 1]
    /\ tpc' = [tpc EXCEPT ![e] = "done"]
    /\ UNCHANGED << timeVars, notEngine, configVars, metrics, trackVars, handler,
                    loc, wake, lag, raised, wired, link_delay, preempts, runs,
                    linkVars, handled, is_paused, stop_event, pause_event, mpc,
                    deadline, calls, returned >>

(***************************************************************************)
(* The engines: the receive thread and the packet handler                  *)
(***************************************************************************)
\* how often the handler may run between the return of send_packet and the
\* statements that count the send
MaxPreempt == 1

\* lines 336-342: the ACK was created and sent as s tells, then the latency
Acknowledged(e, pkt, m, latency, s) ==
    [metrics |-> IF s.err = "" /\ latency > 0
                 THEN [m EXCEPT !.latency_samples = Append(@, latency)]
                 ELSE m,
     pending_acks |-> pending_acks[e],
     received_sequences |-> received_sequences[e] \cup {pkt.sequence_id},
     last_sequence |-> Max(last_sequence[e], pkt.sequence_id),
     handler |-> s.handler, out |-> s.out, err |-> s.err,
     handled |-> Append(handled[e], pkt.sequence_id)]

\* _handle_data_packet_receiver(packet, current_time)
HandleDataPacketReceiver(e, pkt, current_time) ==
    Acknowledged(e, pkt,
                 GapAccounted([metrics[e] EXCEPT
                                 !.packets_received = @ + 1,
                                 !.bytes_transmitted = @ + Len(pkt.payload)],
                              pkt.sequence_id, last_sequence[e]),
                 TimeDiff(AbsTime(epoch, current_time), pkt.timestamp),
                 CreateAndSend(handler[e], ACK, PackU32(pkt.sequence_id),
                               current_time))

\* what a handler that touches nothing leaves
Untouched(e) ==
    [metrics |-> metrics[e], pending_acks |-> pending_acks[e],
     received_sequences |-> received_sequences[e],
     last_sequence |-> last_sequence[e], handler |-> handler[e],
     out |-> << >>, err |-> "", handled |-> handled[e]]

\* _handle_ack_packet_transmitter(packet, current_time)
HandleAckPacketTransmitter(e, pkt, current_time) ==
    LET acked_seq == GetAckedSequence(pkt)
        hit == {r \in pending_acks[e] :
                  acked_seq.some /\ acked_seq.hi = 0 /\ r.seq = acked_seq.lo}
    IN  IF hit = {} THEN Untouched(e)
        ELSE LET send_time == (CHOOSE r \in hit : TRUE).sent
                 latency == current_time - send_time
             IN  [Untouched(e) EXCEPT
                    !.metrics = [@ EXCEPT !.latency_samples = Append(@, latency),
                                          !.packets_received = @ + 1],
                    !.pending_acks = @ \ hit]

\* a slot that counts the unexpected packet as lost besides logging it
LoggedAsLost(e, text, pkt) ==
    [Untouched(e) EXCEPT
       !.metrics = [@ EXCEPT !.errors = Append(@, ErrorEntry(text, pkt.sequence_id)),
                             !.packets_lost = @ + 1]]

\* an error entry is all the handler adds
Logged(e, text, pkt) ==
    [Untouched(e) EXCEPT
       !.metrics = [@ EXCEPT !.errors = Append(@, ErrorEntry(text, pkt.sequence_id))]]

\* a slot that counts a HEARTBEAT as a packet received
HandleHeartbeatCounts(e, pkt) ==
    [Untouched(e) EXCEPT !.metrics = [@ EXCEPT !.packets_received = @ + 1]]

\* lines 316-318: the HEARTBEAT branch of _handle_received_packet
HandleHeartbeat(e, pkt) == Untouched(e)

\* _handle_received_packet(packet)
HandleReceivedPacket(e, pkt) ==
    IF ~is_running[e] THEN Untouched(e)
    ELSE IF pkt.packet_type = DATA
    THEN IF mode[e] = TRANSMITTER THEN Logged(e, "Unexpected DATA packet", pkt)
         ELSE HandleDataPacketReceiver(e, pkt, clock)
    ELSE IF pkt.packet_type = ACK
    THEN IF mode[e] = TRANSMITTER THEN HandleAckPacketTransmitter(e, pkt, clock)
         ELSE Logged(e, "Unexpected ACK packet", pkt)
    ELSE HandleHeartbeat(e, pkt)

\* the engine after the slot did r
Handled(e, r) ==
    /\ metrics' = [metrics EXCEPT ![e] = r.metrics]
    /\ pending_acks' = [pending_acks EXCEPT ![e] = r.pending_acks]
    /\ received_sequences' = [received_sequences EXCEPT ![e] = r.received_sequences]
    /\ last_sequence' = [last_sequence EXCEPT ![e] = r.last_sequence]
    /\ handler' = [handler EXCEPT ![e] = r.handler]
    /\ handled' = [handled EXCEPT ![e] = r.handled]
    /\ link' = Post(e, r.out)
    /\ IF r.err # ""
       THEN \E how \in {"handler", "abort"} :
              raised' = [raised EXCEPT ![e] = @ \cup {how}]
       ELSE raised' = raised

\* the test thread is between the return of send_packet and the statements
\* that count the send, or between the two loops of the sweep, or between
\* lines 199 and 200 of the epilogue, or inside create_packet
MidStatement(e) == tpc[e] \in {"account", "sweep", "final", "create"}

\* the slot runs on the next packet packet_received emitted
Handle(e) ==
    /\ Alive(e)
    /\ mpc[e] = "idle"
    /\ inbox[e] # << >>
    /\ MidStatement(e) => preempts < MaxPreempt
    /\ preempts' = IF MidStatement(e) THEN preempts + 1 ELSE preempts
    /\ Handled(e, HandleReceivedPacket(e, Head(inbox[e])))
    /\ inbox' = [inbox EXCEPT ![e] = Tail(@)]
    /\ UNCHANGED << timeVars, notEngine, configVars, ctlVars, is_running,
                    expected_sequences, threadVars, lag, wired, link_delay, runs >>

\* line 348 of the slot finds the id of the packet pkt in pending_acks
AckFound(e, pkt) ==
    /\ is_running[e]
    /\ mode[e] = TRANSMITTER
    /\ pkt.packet_type = ACK
    /\ HandleAckPacketTransmitter(e, pkt, clock).pending_acks # pending_acks[e]

\* the slot up to line 348, the test thread running before the slot goes on
HandleAckFinds(e) ==
    /\ Alive(e)
    /\ mpc[e] = "idle"
    /\ inbox[e] # << >>
    /\ AckFound(e, Head(inbox[e]))
    /\ preempts < MaxPreempt
    /\ preempts' = preempts + 1
    /\ mpc' = [mpc EXCEPT ![e] = "slot"]
    /\ UNCHANGED << timeVars, notEngine, configVars, is_running, metrics, trackVars,
                    handler, threadVars, lag, raised, wired, link_delay, runs,
                    linkVars, handled, flagVars, deadline, calls, returned >>

\* the slot from line 350: the entry is read and deleted, or it is gone and
\* the subscript raises KeyError
HandleAckRemoves(e) ==
    /\ Alive(e)
    /\ mpc[e] = "slot"
    /\ IF AckFound(e, Head(inbox[e]))
       THEN Handled(e, HandleAckPacketTransmitter(e, Head(inbox[e]), clock))
       ELSE Handled(e, [Untouched(e) EXCEPT !.err = "KeyError"])
    /\ inbox' = [inbox EXCEPT ![e] = Tail(@)]
    /\ mpc' = [mpc EXCEPT ![e] = "idle"]
    /\ UNCHANGED << timeVars, notEngine, configVars, is_running,
                    expected_sequences, threadVars, lag, wired, link_delay, runs,
                    preempts, flagVars, deadline, calls, returned >>

\* a receive loop whose packets overtake the ones that wait for the slot
ParsedFirst(e, data, parsed) ==
    /\ handler' = [handler EXCEPT ![e].buffer = parsed.buffer,
                                  ![e].bytes_received = @ + Len(data),
                                  ![e].packets_received = @ + Len(parsed.out)]
    /\ inbox' = [inbox EXCEPT ![e] = parsed.out \o @]

\* the engine's handler after _parse_buffer left parsed of the buffer and data
Parsed(e, data, parsed) ==
    /\ handler' = [handler EXCEPT ![e].buffer = parsed.buffer,
                                  ![e].bytes_received = @ + Len(data),
                                  ![e].packets_received = @ + Len(parsed.out)]
    /\ inbox' = [inbox EXCEPT ![e] = @ \o parsed.out]

\* one turn of the engine's _receive_loop: a frame is read, _parse_buffer
\* emits what it holds
Deliver(e) ==
    /\ Alive(e)
    /\ handler[e].is_connected
    /\ link[e] # << >>
    /\ Head(link[e]).due <= clock
    /\ Parsed(e, Head(link[e]).bytes,
              ParseBuffer(handler[e].buffer \o Head(link[e]).bytes))
    /\ link' = [link EXCEPT ![e] = Tail(@)]
    /\ UNCHANGED << timeVars, notEngine, configVars, ctlVars, is_running, metrics,
                    trackVars, threadVars, lag, raised, wired, link_delay,
                    preempts, runs, handled >>

\* frames a peer device sends in one run, and the highest id it uses
MaxArrivals == 4
MaxSeq == 4
\* the user's calls in one behaviour, and when the user makes them, in ticks
MaxCalls == 2
CallTimes == {0, Seconds(1) \div 2}
\* how long the clock is followed, in seconds
MaxSeconds == 8
\* the peer stamps with its own clock and sends two filler bytes
PeerStamp == AbsTime(EarlyEpoch, 0)

\* a peer device is on the engine's line and has frames left to send
PeerSending(e) ==
    /\ ~wired
    /\ mode[e] = RECEIVER
    /\ handler[e].is_connected
    /\ handler[e].packets_received + Len(link[e]) < MaxArrivals

\* a peer device answers the first DATA packet of the engine, link_delay
\* after it was written, and has not answered yet
PeerAcking(e) ==
    /\ ~wired
    /\ link_delay > 0
    /\ mode[e] = TRANSMITTER
    /\ handler[e].is_connected
    /\ pending_acks[e] # {}
    /\ handler[e].packets_received + Len(link[e]) = 0

\* the peer's ACK of the engine's first DATA packet is on its way
AckArrive(e) ==
    /\ Alive(e)
    /\ PeerAcking(e)
    /\ LET first == CHOOSE r \in pending_acks[e] : \A q \in pending_acks[e] : r.seq <= q.seq
       IN  link' = [link EXCEPT ![e] =
                      Append(@, [due |-> first.sent + link_delay,
                                 bytes |-> FrameOf(Packet(ACK, 0, PeerStamp,
                                                          PackU32(first.seq)))])]
    /\ UNCHANGED << timeVars, notEngine, configVars, ctlVars, is_running, metrics,
                    trackVars, handler, threadVars, lag, raised, wired,
                    link_delay, preempts, runs, inbox, handled >>

\* the peer device sends a DATA frame with sequence id seq once the frame
\* before it has been read; the line takes link_delay to carry it
Arrive(e, seq) ==
    /\ Alive(e)
    /\ PeerSending(e)
    /\ link[e] = << >>
    /\ link' = [link EXCEPT ![e] =
                  Append(@, [due |-> clock + link_delay,
                             bytes |-> FrameOf(Packet(DATA, seq, PeerStamp, Filler(2)))])]
    /\ UNCHANGED << timeVars, notEngine, configVars, ctlVars, is_running, metrics,
                    trackVars, handler, threadVars, lag, raised, wired,
                    link_delay, preempts, runs, inbox, handled >>

\* frames a peer device of either kind sends to an engine in one behaviour
MaxFrames == 2
\* what such a peer sends: DATA, an ACK of id 0 and of id 1, an ACK whose
\* payload is too short to hold an id, a HEARTBEAT
PeerPackets ==
    { Packet(DATA, 0, PeerStamp, Filler(2)),
      Packet(DATA, 1, PeerStamp, Filler(2)),
      Packet(ACK, 0, PeerStamp, PackU32(0)),
      Packet(ACK, 0, PeerStamp, PackU32(1)),
      Packet(ACK, 0, PeerStamp, Filler(2)),
      Packet(HEARTBEAT, 0, PeerStamp, << >>) }

\* the peer device sends the packet p, when the test starts or half a second
\* later, once the frame before it has been read
ArrivePacket(e, p) ==
    /\ Alive(e)
    /\ ~wired
    /\ handler[e].is_connected
    /\ link[e] = << >>
    /\ clock \in CallTimes
    /\ handler[e].packets_received < MaxFrames
    /\ link' = [link EXCEPT ![e] = << [due |-> clock, bytes |-> FrameOf(p)] >>]
    /\ UNCHANGED << timeVars, notEngine, configVars, ctlVars, is_running, metrics,
                    trackVars, handler, threadVars, lag, raised, wired,
                    link_delay, preempts, runs, inbox, handled >>

\* the bytes of the peer's frames with the ids 0 .. n-1, one after the other
RECURSIVE StreamOf(_)
StreamOf(n) ==
    IF n = 0 THEN << >>
    ELSE StreamOf(n - 1) \o FrameOf(Packet(DATA, n - 1, PeerStamp, Filler(2)))
PeerStream == StreamOf(MaxArrivals)

\* how many bytes one read of the port returns: less than a header, a frame,
\* more than a frame
ChunkSizes == {5, 18, 23}

\* the port returns the next n bytes of the peer's stream, or what is left
ArriveChunk(e, n) ==
    /\ Alive(e)
    /\ ~wired
    /\ mode[e] = RECEIVER
    /\ handler[e].is_connected
    /\ link[e] = << >>
    /\ handler[e].bytes_received < Len(PeerStream)
    /\ link' = [link EXCEPT ![e] =
                  << [due |-> clock,
                      bytes |-> SubSeq(PeerStream, handler[e].bytes_received + 1,
                                       IF handler[e].bytes_received + n < Len(PeerStream)
                                       THEN handler[e].bytes_received + n
                                       ELSE Len(PeerStream))] >>]
    /\ UNCHANGED << timeVars, notEngine, configVars, ctlVars, is_running, metrics,
                    trackVars, handler, threadVars, lag, raised, wired,
                    link_delay, preempts, runs, inbox, handled >>

\* the test thread sleeps, or there is none and none is about to start, and
\* nothing waits to be read or handled; a peer sends its frames back to back
Sleeping(e) == tpc[e] \in {"top", "paused"} /\ wake[e] > clock
\* the test thread has not ended (Thread.is_alive)
ThreadAlive(e) ==
    tpc[e] \in {"begin", "top", "paused", "go", "account", "tail", "sweep", "final",
                "create", "write"}
\* stop_test waits in join
Joining(e) == mpc[e] = "joining" /\ ThreadAlive(e) /\ deadline[e] > clock
Quiet(e) ==
    \/ ~Alive(e)
    \/ /\ PeerSending(e) => link[e] # << >>
       /\ ~PeerAcking(e)
       /\ \/ Sleeping(e)
          \/ tpc[e] \in {"done", "crashed", "write"}
          \/ tpc[e] = "idle" /\ ~(handler[e].is_connected /\ runs[e] < MaxRuns)
       /\ mpc[e] = "joining" => Joining(e)
       /\ inbox[e] = << >> \/ mpc[e] = "joining"
       /\ link[e] # << >> => Head(link[e]).due > clock

\* time passes until the next thread wakes or the next frame arrives
Advance ==
    /\ \A e \in Engines : Quiet(e)
    /\ LET times == {wake[e] : e \in {x \in Engines : Alive(x) /\ Sleeping(x)}}
                    \cup {Head(link[e]).due :
                            e \in {x \in Engines : Alive(x) /\ link[x] # << >>}}
                    \cup {deadline[e] : e \in {x \in Engines : Alive(x) /\ Joining(x)}}
                    \cup {t \in CallTimes : t > clock /\ calls > 0}
       IN  /\ times # {}
           /\ clock' = CHOOSE t \in times : \A u \in times : t <= u
           /\ clock' <= Seconds(MaxSeconds)
    /\ UNCHANGED << epoch, notEngine, engVars >>

(***************************************************************************)
(* The engines: what the user calls on the main thread                     *)
(***************************************************************************)
\* the user may call now; on an engine without a port the user tries no more
\* than to start it
UserCalls(e) ==
    /\ Alive(e)
    /\ mpc[e] = "idle"
    /\ handler[e].is_connected
    /\ calls > 0
    /\ clock \in CallTimes
    /\ calls' = calls - 1

\* a configure_test that takes the parameters whatever the engine is doing
ConfigureRefusedNever(e) == FALSE

\* line 115 of configure_test
ConfigureRefused(e) == is_running[e]

\* configure_test(c.mode, c.packet_size, c.transmission_rate, c.test_duration)
ConfigureTest(e, c) ==
    /\ UserCalls(e)
    /\ IF ConfigureRefused(e)
       THEN /\ returned' = [e |-> e, op |-> "configure_test", ret |-> FALSE]
            /\ UNCHANGED configVars
       ELSE /\ returned' = [e |-> e, op |-> "configure_test", ret |-> TRUE]
            /\ mode' = [mode EXCEPT ![e] = c.mode]
            /\ packet_size' = [packet_size EXCEPT ![e] = c.packet_size]
            /\ transmission_rate' = [transmission_rate EXCEPT ![e] = c.transmission_rate]
            /\ test_duration' = [test_duration EXCEPT ![e] = c.test_duration]
    /\ UNCHANGED << timeVars, notEngine, is_running, metrics, trackVars, handler,
                    threadVars, lag, raised, wired, link_delay, preempts, runs,
                    linkVars, handled, flagVars, mpc, deadline >>

\* start_test() called by the user after the first test, or without a port
StartTestCall(e) ==
    /\ UserCalls(e) \/ UserCalls(Other(e))
    /\ calls' = calls - 1
    /\ IF StartAllowed(e)
       THEN /\ Started(e)
            /\ returned' = [e |-> e, op |-> "start_test", ret |-> TRUE]
       ELSE /\ returned' = [e |-> e, op |-> "start_test", ret |-> FALSE]
            /\ UNCHANGED << timeVars, notEngine, configVars, is_running, metrics,
                            trackVars, handler, threadVars, lag, raised, wired,
                            link_delay, preempts, runs, linkVars, handled,
                            flagVars, mpc, deadline >>

\* stop_test() up to the join: lines 152-159
StopTest(e) ==
    /\ UserCalls(e)
    /\ IF ~is_running[e]
       THEN /\ returned' = [e |-> e, op |-> "stop_test", ret |-> "none"]
            /\ UNCHANGED << is_running, stop_event, mpc, deadline >>
       ELSE /\ stop_event' = [stop_event EXCEPT ![e] = TRUE]
            /\ is_running' = [is_running EXCEPT ![e] = FALSE]
            /\ mpc' = [mpc EXCEPT ![e] = "joining"]
            /\ deadline' = [deadline EXCEPT ![e] = clock + Seconds(2)]
            /\ returned' = [e |-> e, op |-> "stop_test", ret |-> "joining"]
    /\ UNCHANGED << timeVars, notEngine, configVars, metrics, trackVars, handler,
                    threadVars, lag, raised, wired, link_delay, preempts, runs,
                    linkVars, handled, is_paused, pause_event, signals >>

\* stop_test() from the end of the join: lines 161-164
StopTestEnd(e) ==
    /\ Alive(e)
    /\ mpc[e] = "joining"
    /\ ~ThreadAlive(e) \/ deadline[e] <= clock
    /\ metrics' = [metrics EXCEPT ![e].end_time = clock]
    /\ mpc' = [mpc EXCEPT ![e] = "idle"]
    /\ signals' = [signals EXCEPT ![e].stopped = @ + 1]
    /\ returned' = [e |-> e, op |-> "stop_test", ret |-> "stopped"]
    /\ UNCHANGED << timeVars, notEngine, configVars, is_running, trackVars, handler,
                    threadVars, lag, raised, wired, link_delay, preempts, runs,
                    linkVars, handled, is_paused, stop_event, pause_event,
                    deadline, calls >>

\* a pause_test() without the guard of line 168
PauseTestUnguarded(e) ==
    /\ UserCalls(e)
    /\ returned' = [e |-> e, op |-> "pause_test", ret |-> "none"]
    /\ is_paused' = [is_paused EXCEPT ![e] = TRUE]
    /\ pause_event' = [pause_event EXCEPT ![e] = TRUE]
    /\ signals' = [signals EXCEPT ![e].paused = @ + 1]
    /\ UNCHANGED << timeVars, notEngine, configVars, is_running, metrics, trackVars,
                    handler, threadVars, lag, raised, wired, link_delay, preempts,
                    runs, linkVars, handled, stop_event, mpc, deadline >>

\* pause_test()
PauseTest(e) ==
    /\ UserCalls(e)
    /\ returned' = [e |-> e, op |-> "pause_test", ret |-> "none"]
    /\ IF ~is_running[e] \/ is_paused[e]
       THEN UNCHANGED << is_paused, pause_event, signals >>
       ELSE /\ is_paused' = [is_paused EXCEPT ![e] = TRUE]
            /\ pause_event' = [pause_event EXCEPT ![e] = TRUE]
            /\ signals' = [signals EXCEPT ![e].paused = @ + 1]
    /\ UNCHANGED << timeVars, notEngine, configVars, is_running, metrics, trackVars,
                    handler, threadVars, lag, raised, wired, link_delay, preempts,
                    runs, linkVars, handled, stop_event, mpc, deadline >>

\* resume_test()
ResumeTest(e) ==
    /\ UserCalls(e)
    /\ returned' = [e |-> e, op |-> "resume_test", ret |-> "none"]
    /\ IF ~is_running[e] \/ ~is_paused[e]
       THEN UNCHANGED << is_paused, pause_event, signals >>
       ELSE /\ is_paused' = [is_paused EXCEPT ![e] = FALSE]
            /\ pause_event' = [pause_event EXCEPT ![e] = FALSE]
            /\ signals' = [signals EXCEPT ![e].resumed = @ + 1]
    /\ UNCHANGED << timeVars, notEngine, configVars, is_running, metrics, trackVars,
                    handler, threadVars, lag, raised, wired, link_delay, preempts,
                    runs, linkVars, handled, stop_event, mpc, deadline >>

\* serial_handler.disconnect(), called by the user: the receive thread is
\* stopped and its buffer is gone, the port is closed
Disconnect(e) ==
    /\ UserCalls(e)
    /\ returned' = [e |-> e, op |-> "disconnect", ret |-> "none"]
    /\ handler' = [handler EXCEPT ![e].is_connected = FALSE, ![e].buffer = << >>]
    /\ UNCHANGED << timeVars, notEngine, configVars, is_running, metrics, trackVars,
                    threadVars, lag, raised, wired, link_delay, preempts, runs,
                    linkVars, handled, flagVars, mpc, deadline >>

\* the device goes away, at one of the times the user may call and no later
\* than the user's last call: from now on serial_connection.write raises
\* SerialException
Unplug(e) ==
    /\ Alive(e)
    /\ handler[e].is_connected
    /\ handler[e].writable
    /\ calls > 0
    /\ clock \in CallTimes
    /\ handler' = [handler EXCEPT ![e].writable = FALSE]
    /\ UNCHANGED << timeVars, notEngine, configVars, is_running, metrics, trackVars,
                    threadVars, lag, raised, wired, link_delay, preempts, runs,
                    linkVars, handled, ctlVars >>

\* the bytes of a DATA frame of the engine
FrameSize(e) == HEADER_SIZE + packet_size[e] + FOOTER_SIZE

\* the DATA send of the step r has come to serial_connection.write (line 95)
\* and the write does not return: the port takes no bytes for now (no
\* write_timeout is set, lines 43-50); the packet is created, nothing of it
\* is counted
Blocks(e, r) ==
    /\ r.to = "account"
    /\ tpc' = [tpc EXCEPT ![e] = "write"]
    /\ handler' = [handler EXCEPT ![e] =
                     [r.handler EXCEPT !.bytes_sent = @ - FrameSize(e),
                                       !.packets_sent = @ - 1]]
    /\ loc' = [loc EXCEPT ![e] = r.loc]

TransmitterBlocks(e) ==
    /\ Alive(e)
    /\ ~wired
    /\ mode[e] = TRANSMITTER
    /\ \/ /\ tpc[e] = "top"
          /\ wake[e] <= clock
          /\ Blocks(e, TransmitterStep(e, [loc[e] EXCEPT !.current_time = clock]))
       \/ /\ tpc[e] = "go"
          /\ Blocks(e, DataDue(e, loc[e], loc[e].current_time,
                               Heartbeat(e, loc[e], loc[e].current_time)))
    /\ UNCHANGED << timeVars, notEngine, configVars, ctlVars, is_running, metrics,
                    trackVars, wake, lag, raised, wired, link_delay, preempts,
                    runs, linkVars, handled >>

\* the write returns: lines 96-101 of send_packet, which returns True
WriteReturns(e) ==
    /\ Alive(e)
    /\ tpc[e] = "write"
    /\ tpc' = [tpc EXCEPT ![e] = "account"]
    /\ handler' = [handler EXCEPT ![e].bytes_sent = @ + FrameSize(e),
                                  ![e].packets_sent = @ + 1]
    /\ UNCHANGED << timeVars, notEngine, configVars, ctlVars, is_running, metrics,
                    trackVars, loc, wake, lag, raised, wired, link_delay, preempts,
                    runs, linkVars, handled >>

\* the same for the thread of an earlier test
StaleReturns(e) ==
    /\ Alive(e)
    /\ handler[e].stale.pc = "write"
    /\ handler' = [handler EXCEPT ![e].bytes_sent = @ + FrameSize(e),
                                  ![e].packets_sent = @ + 1,
                                  ![e].stale.pc = "account"]
    /\ UNCHANGED << timeVars, notEngine, configVars, ctlVars, is_running, metrics,
                    trackVars, threadVars, lag, raised, wired, link_delay, preempts,
                    runs, linkVars, handled >>

\* lines 239-244 run by the thread of an earlier test, with its locals, on
\* the engine's metrics and pending_acks of now; the thread is followed no
\* further than this
StaleAccount(e) ==
    /\ Alive(e)
    /\ handler[e].stale.pc = "account"
    /\ metrics' = [metrics EXCEPT ![e].packets_sent = @ + 1,
                                  ![e].bytes_transmitted = @ + packet_size[e]]
    /\ pending_acks' = [pending_acks EXCEPT ![e] =
                          Put(@, handler[e].stale.loc.sequence_id,
                              handler[e].stale.loc.current_time)]
    /\ expected_sequences' = [expected_sequences EXCEPT ![e] =
                                Append(@, handler[e].stale.loc.sequence_id)]
    /\ handler' = [handler EXCEPT
                     ![e].stale.loc.next_packet_time =
                        @ + PacketInterval(transmission_rate[e]),
                     ![e].stale.pc = "tail"]
    /\ UNCHANGED << timeVars, notEngine, configVars, ctlVars, is_running,
                    received_sequences, last_sequence, threadVars, lag, raised,
                    wired, link_delay, preempts, runs, linkVars, handled >>

\* start_test() called by the user as soon as stop_test() has returned
StartAgain(e) ==
    /\ Alive(e)
    /\ mpc[e] = "idle"
    /\ returned = [e |-> e, op |-> "stop_test", ret |-> "stopped"]
    /\ calls > 0
    /\ calls' = calls - 1
    /\ IF StartAllowed(e)
       THEN /\ Started(e)
            /\ returned' = [e |-> e, op |-> "start_test", ret |-> TRUE]
       ELSE /\ returned' = [e |-> e, op |-> "start_test", ret |-> FALSE]
            /\ UNCHANGED << timeVars, notEngine, configVars, is_running, metrics,
                            trackVars, handler, threadVars, lag, raised, wired,
                            link_delay, preempts, runs, linkVars, handled,
                            flagVars, mpc, deadline >>

\* past the time the clock is followed, the thread that sleeps wakes at an
\* unrecorded time
AdvanceBeyond ==
    /\ \A e \in Engines : Quiet(e)
    /\ \E e \in Engines :
         /\ Alive(e)
         /\ Sleeping(e)
         /\ wake[e] > Seconds(MaxSeconds)
         /\ wake' = [wake EXCEPT ![e] = clock]
    /\ UNCHANGED << timeVars, notEngine, configVars, is_running, metrics, trackVars,
                    handler, tpc, loc, lag, raised, wired, link_delay, preempts,
                    runs, linkVars, handled, ctlVars >>

(***************************************************************************)
(* A responder and a peer device that skips, repeats and reorders ids      *)
(***************************************************************************)
\* the responder's test_duration, in seconds
RecvDuration == 1

RecvInit ==
    /\ epoch \in Epochs
    /\ clock = 0
    /\ sequence_counter = 0
    /\ CodecIdle
    /\ ParseIdle
    /\ EngFresh
    /\ mode = [e \in Engines |-> IF e = 2 THEN RECEIVER ELSE TRANSMITTER]
    /\ packet_size = [e \in Engines |-> 64]
    /\ transmission_rate = [e \in Engines |-> 10]
    /\ test_duration = [e \in Engines |-> IF e = 2 THEN RecvDuration ELSE 60]
    /\ handler = [e \in Engines |-> [NewHandler EXCEPT !.is_connected = (e = 2)]]
    /\ lag = 0
    /\ wired = FALSE
    /\ link_delay = 0
    /\ calls = 0

RecvNext ==
    \/ \E e \in Engines : StartTest(e)
    \/ \E e \in Engines : TestLoopBegin(e)
    \/ \E e \in Engines : TestLoopEnd(e)
    \/ \E e \in Engines : ReceiverLoop(e)
    \/ \E e \in Engines : \E seq \in 0..MaxSeq : Arrive(e, seq)
    \/ \E e \in Engines : Deliver(e)
    \/ \E e \in Engines : Handle(e)
    \/ Advance

SpecRecv == RecvInit /\ [][RecvNext]_vars

(***************************************************************************)
(* An originator on a transport that takes every write and returns nothing *)
(***************************************************************************)
\* transmission_rate, packet_size, test_duration of the runs
TxConfigs == {[rate |-> 10, size |-> 64, duration |-> 2],
              [rate |-> 1, size |-> 2, duration |-> 7]}
\* what a sleep takes beyond what was asked, in ticks
Lags == {0, 1}

TxInit ==
    /\ epoch \in Epochs
    /\ clock = 0
    /\ sequence_counter = 0
    /\ CodecIdle
    /\ ParseIdle
    /\ EngFresh
    /\ \E c \in TxConfigs :
         /\ mode = [e \in Engines |-> TRANSMITTER]
         /\ packet_size = [e \in Engines |-> IF e = 1 THEN c.size ELSE 64]
         /\ transmission_rate = [e \in Engines |-> IF e = 1 THEN c.rate ELSE 10]
         /\ test_duration = [e \in Engines |-> IF e = 1 THEN c.duration ELSE 60]
    /\ handler = [e \in Engines |-> [NewHandler EXCEPT !.is_connected = (e = 1)]]
    /\ lag \in Lags
    /\ wired = FALSE
    /\ link_delay = 0
    /\ calls = 0

TxNext ==
    \/ \E e \in Engines : StartTest(e)
    \/ \E e \in Engines : TestLoopBegin(e)
    \/ \E e \in Engines : TestLoopEnd(e)
    \/ \E e \in Engines : TransmitterHead(e)
    \/ \E e \in Engines : TransmitterAccount(e)
    \/ \E e \in Engines : TransmitterTail(e)
    \/ \E e \in Engines : TransmitterSweep(e)
    \/ Advance

SpecTx == TxInit /\ [][TxNext]_vars

(***************************************************************************)
(* An originator and a responder on a lossless, in-order duplex link       *)
(***************************************************************************)
\* what the link takes to carry a frame, in ticks
LinkDelays == {0, 1}

LoopInit ==
    /\ epoch \in Epochs
    /\ clock = 0
    /\ sequence_counter = 0
    /\ CodecIdle
    /\ ParseIdle
    /\ EngFresh
    /\ mode = [e \in Engines |-> IF e = 2 THEN RECEIVER ELSE TRANSMITTER]
    /\ packet_size = [e \in Engines |-> 64]
    /\ transmission_rate = [e \in Engines |-> 5]
    /\ test_duration = [e \in Engines |-> 3]
    /\ handler = [e \in Engines |-> [NewHandler EXCEPT !.is_connected = TRUE]]
    /\ lag = 0
    /\ wired = TRUE
    /\ link_delay \in LinkDelays
    /\ calls = 0

LoopNext ==
    \/ \E e \in Engines : StartTest(e)
    \/ \E e \in Engines : TestLoopBegin(e)
    \/ \E e \in Engines : TestLoopEnd(e)
    \/ \E e \in Engines : TransmitterHead(e)
    \/ \E e \in Engines : TransmitterAccount(e)
    \/ \E e \in Engines : TransmitterTail(e)
    \/ \E e \in Engines : ReceiverLoop(e)
    \/ \E e \in Engines : Deliver(e)
    \/ \E e \in Engines : Handle(e)
    \/ Advance

SpecLoop == LoopInit /\ [][LoopNext]_vars

(***************************************************************************)
(* One engine with its port open, the other without, and a user            *)
(***************************************************************************)
\* what the user passes to configure_test
UserConfigs == {[mode |-> RECEIVER, packet_size |-> 32, transmission_rate |-> 2,
                 test_duration |-> 2]}

CtlInit ==
    /\ epoch \in {EarlyEpoch, PresentEpoch}
    /\ clock = 0
    /\ sequence_counter = 0
    /\ CodecIdle
    /\ ParseIdle
    /\ EngFresh
    /\ mode = [e \in Engines |-> IF e = 2 THEN RECEIVER ELSE TRANSMITTER]
    /\ packet_size = [e \in Engines |-> 2]
    /\ transmission_rate = [e \in Engines |-> 10]
    /\ test_duration = [e \in Engines |-> 1]
    /\ \E open \in Engines :
         handler = [e \in Engines |-> [NewHandler EXCEPT !.is_connected = (e = open)]]
    /\ lag = 0
    /\ wired = FALSE
    /\ link_delay = 0
    /\ calls = MaxCalls

\* the peer of a responder sends its ids in order
InOrder(e) == handler[e].packets_received + Len(link[e])

CtlNext ==
    \/ \E e \in Engines : StartTest(e)
    \/ \E e \in Engines : TestLoopBegin(e)
    \/ \E e \in Engines : TestLoopEnd(e)
    \/ \E e \in Engines : TransmitterHead(e)
    \/ \E e \in Engines : TransmitterPaused(e)
    \/ \E e \in Engines : TransmitterGo(e)
    \/ \E e \in Engines : TransmitterAccount(e)
    \/ \E e \in Engines : TransmitterTail(e)
    \/ \E e \in Engines : ReceiverLoop(e)
    \/ \E e \in Engines : ReceiverPaused(e)
    \/ \E e \in Engines : Arrive(e, InOrder(e))
    \/ \E e \in Engines : Deliver(e)
    \/ \E e \in Engines : Handle(e)
    \/ \E e \in Engines : \E c \in UserConfigs : ConfigureTest(e, c)
    \/ \E e \in Engines : StartTestCall(e)
    \/ \E e \in Engines : StopTest(e)
    \/ \E e \in Engines : StopTestEnd(e)
    \/ \E e \in Engines : PauseTest(e)
    \/ \E e \in Engines : ResumeTest(e)
    \/ Advance
    \/ AdvanceBeyond

SpecCtl == CtlInit /\ [][CtlNext]_vars

\* the test thread of e has a statement to run now
Runnable(e) ==
    /\ Alive(e)
    /\ \/ tpc[e] \in {"begin", "go", "account", "tail", "sweep", "final", "create"}
       \/ tpc[e] \in {"top", "paused"} /\ wake[e] <= clock

\* the event loop of e has a queued packet_received to deliver to the slot
SlotReady(e) ==
    /\ Alive(e)
    /\ mpc[e] = "idle"
    /\ inbox[e] # << >>
    /\ MidStatement(e) => preempts < MaxPreempt

\* the reader thread of e has bytes to read
FrameReady(e) ==
    /\ Alive(e)
    /\ handler[e].is_connected
    /\ link[e] # << >>
    /\ Head(link[e]).due <= clock

\* the peer of e has a frame to put on the line
PeerReady(e) == Alive(e) /\ PeerSending(e) /\ link[e] = << >>

\* The threads run, the slots run, the frames arrive and time passes.  A
\* thread, a slot, a reader or a peer that has something to do does it: none
\* stays ready for ever.  Every step of a ready one ends its being ready or
\* leads to a sleep, so this is weak fairness of their steps, written on the
\* states.
CtlFairness ==
    /\ \A e \in Engines :
         /\ []<>~Runnable(e)
         /\ []<>~SlotReady(e)
         /\ []<>~FrameReady(e)
         /\ []<>~PeerReady(e)
         /\ WF_vars(StopTestEnd(e))
    /\ WF_vars(Advance)
    /\ WF_vars(AdvanceBeyond)

SpecCtlFair == SpecCtl /\ CtlFairness

(***************************************************************************)
(* An originator whose port fails or is closed during the test             *)
(***************************************************************************)
FailInit ==
    /\ epoch \in {EarlyEpoch, PresentEpoch}
    /\ clock = 0
    /\ sequence_counter = 0
    /\ CodecIdle
    /\ ParseIdle
    /\ EngFresh
    /\ mode = [e \in Engines |-> TRANSMITTER]
    /\ packet_size = [e \in Engines |-> 2]
    /\ transmission_rate = [e \in Engines |-> 2]
    /\ test_duration = [e \in Engines |-> 1]
    /\ handler = [e \in Engines |-> [NewHandler EXCEPT !.is_connected = (e = 1)]]
    /\ lag = 0
    /\ wired = FALSE
    /\ link_delay = 0
    /\ calls = 1

FailNext ==
    \/ \E e \in Engines : StartTest(e)
    \/ \E e \in Engines : TestLoopBegin(e)
    \/ \E e \in Engines : TestLoopEnd(e)
    \/ \E e \in Engines : TransmitterHead(e)
    \/ \E e \in Engines : TransmitterGo(e)
    \/ \E e \in Engines : TransmitterAccount(e)
    \/ \E e \in Engines : TransmitterTail(e)
    \/ \E e \in Engines : Disconnect(e)
    \/ \E e \in Engines : Unplug(e)
    \/ Advance

SpecFail == FailInit /\ [][FailNext]_vars

(***************************************************************************)
(* An engine of either mode and a peer that sends packets of every type    *)
(***************************************************************************)
FrameInit ==
    /\ epoch \in {EarlyEpoch, PresentEpoch}
    /\ clock = 0
    /\ sequence_counter = 0
    /\ CodecIdle
    /\ ParseIdle
    /\ EngFresh
    /\ \E md \in {TRANSMITTER, RECEIVER} : mode = [e \in Engines |-> md]
    /\ packet_size = [e \in Engines |-> 2]
    /\ transmission_rate = [e \in Engines |-> 2]
    /\ test_duration = [e \in Engines |-> 1]
    /\ handler = [e \in Engines |-> [NewHandler EXCEPT !.is_connected = (e = 1)]]
    /\ lag = 0
    /\ wired = FALSE
    /\ link_delay = 0
    /\ calls = 0

FrameNext ==
    \/ \E e \in Engines : StartTest(e)
    \/ \E e \in Engines : TestLoopBegin(e)
    \/ \E e \in Engines : TestLoopEnd(e)
    \/ \E e \in Engines : TransmitterHead(e)
    \/ \E e \in Engines : TransmitterAccount(e)
    \/ \E e \in Engines : TransmitterTail(e)
    \/ \E e \in Engines : ReceiverLoop(e)
    \/ \E e \in Engines : \E p \in PeerPackets : ArrivePacket(e, p)
    \/ \E e \in Engines : Deliver(e)
    \/ \E e \in Engines : Handle(e)
    \/ Advance

SpecFrames == FrameInit /\ [][FrameNext]_vars

(***************************************************************************)
(* A responder whose port returns the peer's frames in chunks              *)
(***************************************************************************)
OrderNext ==
    \/ \E e \in Engines : StartTest(e)
    \/ \E e \in Engines : TestLoopBegin(e)
    \/ \E e \in Engines : TestLoopEnd(e)
    \/ \E e \in Engines : ReceiverLoop(e)
    \/ \E e \in Engines : \E n \in ChunkSizes : ArriveChunk(e, n)
    \/ \E e \in Engines : Deliver(e)
    \/ \E e \in Engines : Handle(e)
    \/ Advance

SpecOrder == RecvInit /\ [][OrderNext]_vars

(***************************************************************************)
(* A responder whose peer sends a packet when the heartbeat is due, or     *)
(* when the duration runs out                                              *)
(***************************************************************************)
\* the responder's test_duration, in seconds: one more than heartbeat_interval
BeatDuration == 6
\* how long the line takes to carry the peer's frame, in ticks
BeatDelays == {Seconds(heartbeat_interval), Seconds(BeatDuration)}

BeatInit ==
    /\ epoch \in {EarlyEpoch, PresentEpoch}
    /\ clock = 0
    /\ sequence_counter = 0
    /\ CodecIdle
    /\ ParseIdle
    /\ EngFresh
    /\ mode = [e \in Engines |-> IF e = 2 THEN RECEIVER ELSE TRANSMITTER]
    /\ packet_size = [e \in Engines |-> 64]
    /\ transmission_rate = [e \in Engines |-> 10]
    /\ test_duration = [e \in Engines |-> IF e = 2 THEN BeatDuration ELSE 60]
    /\ handler = [e \in Engines |-> [NewHandler EXCEPT !.is_connected = (e = 2)]]
    /\ lag = 0
    /\ wired = FALSE
    /\ link_delay \in BeatDelays
    /\ calls = 0

BeatNext ==
    \/ \E e \in Engines : StartTest(e)
    \/ \E e \in Engines : TestLoopBegin(e)
    \/ \E e \in Engines : TestLoopEnd(e)
    \/ \E e \in Engines : ReceiverLoop(e)
    \/ \E e \in Engines : ReceiverCreated(e)
    \/ \E e \in Engines : Arrive(e, InOrder(e))
    \/ \E e \in Engines : Deliver(e)
    \/ \E e \in Engines : Handle(e)
    \/ Advance

SpecBeat == BeatInit /\ [][BeatNext]_vars

(***************************************************************************)
(* An originator whose peer answers the first packet late                  *)
(***************************************************************************)
\* how long the peer takes to answer, in ticks: as long as the ACK timeout,
\* and one loop turn longer
AckDelays == {Seconds(ack_timeout), Seconds(ack_timeout) + TicksPerMs}

AckInit ==
    /\ epoch \in Epochs
    /\ clock = 0
    /\ sequence_counter = 0
    /\ CodecIdle
    /\ ParseIdle
    /\ EngFresh
    /\ mode = [e \in Engines |-> TRANSMITTER]
    /\ packet_size = [e \in Engines |-> 2]
    /\ transmission_rate = [e \in Engines |-> 1]
    /\ test_duration = [e \in Engines |-> 7]
    /\ handler = [e \in Engines |-> [NewHandler EXCEPT !.is_connected = (e = 1)]]
    /\ lag = 0
    /\ wired = FALSE
    /\ link_delay \in AckDelays
    /\ calls = 0

AckNext ==
    \/ \E e \in Engines : StartTest(e)
    \/ \E e \in Engines : TestLoopBegin(e)
    \/ \E e \in Engines : TestLoopEnd(e)
    \/ \E e \in Engines : TransmitterHead(e)
    \/ \E e \in Engines : TransmitterAccount(e)
    \/ \E e \in Engines : TransmitterTail(e)
    \/ \E e \in Engines : TransmitterSweep(e)
    \/ \E e \in Engines : AckArrive(e)
    \/ \E e \in Engines : Deliver(e)
    \/ \E e \in Engines : Handle(e)
    \/ \E e \in Engines : HandleAckFinds(e)
    \/ \E e \in Engines : HandleAckRemoves(e)
    \/ Advance

SpecAck == AckInit /\ [][AckNext]_vars

(***************************************************************************)
(* An originator and a responder on a lossless, in-order duplex link, for  *)
(* longer than heartbeat_interval                                          *)
(***************************************************************************)
\* test_duration of both, in seconds: one more than heartbeat_interval
LongDuration == 6

LongInit ==
    /\ epoch \in {EarlyEpoch, PresentEpoch}
    /\ clock = 0
    /\ sequence_counter = 0
    /\ CodecIdle
    /\ ParseIdle
    /\ EngFresh
    /\ mode = [e \in Engines |-> IF e = 2 THEN RECEIVER ELSE TRANSMITTER]
    /\ packet_size = [e \in Engines |-> 2]
    /\ transmission_rate = [e \in Engines |-> 1]
    /\ test_duration = [e \in Engines |-> LongDuration]
    /\ handler = [e \in Engines |-> [NewHandler EXCEPT !.is_connected = TRUE]]
    /\ lag = 0
    /\ wired = TRUE
    /\ link_delay \in LinkDelays
    /\ calls = 0

LongNext ==
    \/ \E e \in Engines : StartTest(e)
    \/ \E e \in Engines : TestLoopBegin(e)
    \/ \E e \in Engines : TestLoopEnd(e)
    \/ \E e \in Engines : TransmitterHead(e)
    \/ \E e \in Engines : TransmitterAccount(e)
    \/ \E e \in Engines : TransmitterTail(e)
    \/ \E e \in Engines : TransmitterSweep(e)
    \/ \E e \in Engines : ReceiverLoop(e)
    \/ \E e \in Engines : ReceiverCreated(e)
    \/ \E e \in Engines : Deliver(e)
    \/ \E e \in Engines : Handle(e)
    \/ Advance

SpecLong == LongInit /\ [][LongNext]_vars

(***************************************************************************)
(* An originator and a responder on a lossless, in-order duplex link that  *)
(* run a test, and when both tests have ended, the next                    *)
(***************************************************************************)
\* start_test() of the next test of the pair, called when the tests of both
\* engines have ended, on the one engine right after the other
StartNext(e) ==
    /\ Alive(e)
    /\ mpc[e] = "idle"
    /\ runs[e] = MaxRuns
    /\ tpc[e] = "done"
    /\ \/ tpc[Other(e)] = "done"
       \/ /\ runs[Other(e)] > MaxRuns
          /\ tpc[Other(e)] = "begin" \/ metrics[Other(e)].start_time = clock
    /\ StartAllowed(e)
    /\ Started(e)
    /\ UNCHANGED << calls, returned >>

RerunInit ==
    /\ epoch \in {EarlyEpoch, PresentEpoch}
    /\ clock = 0
    /\ sequence_counter = 0
    /\ CodecIdle
    /\ ParseIdle
    /\ EngFresh
    /\ mode = [e \in Engines |-> IF e = 2 THEN RECEIVER ELSE TRANSMITTER]
    /\ packet_size = [e \in Engines |-> 2]
    /\ transmission_rate = [e \in Engines |-> 2]
    /\ test_duration = [e \in Engines |-> 1]
    /\ handler = [e \in Engines |-> [NewHandler EXCEPT !.is_connected = TRUE]]
    /\ lag = 0
    /\ wired = TRUE
    /\ link_delay \in LinkDelays
    /\ calls = 0

RerunNext ==
    \/ \E e \in Engines : StartTest(e)
    \/ \E e \in Engines : StartNext(e)
    \/ \E e \in Engines : TestLoopBegin(e)
    \/ \E e \in Engines : TestLoopEnd(e)
    \/ \E e \in Engines : TransmitterHead(e)
    \/ \E e \in Engines : TransmitterAccount(e)
    \/ \E e \in Engines : TransmitterTail(e)
    \/ \E e \in Engines : ReceiverLoop(e)
    \/ \E e \in Engines : Deliver(e)
    \/ \E e \in Engines : Handle(e)
    \/ Advance

SpecRerun == RerunInit /\ [][RerunNext]_vars

(***************************************************************************)
(* An originator whose port takes no bytes for a while, and a user who     *)
(* stops the test and starts the next                                      *)
(***************************************************************************)
\* the originator's test_duration, in seconds
RestartDuration == 3

RestartInit ==
    /\ epoch \in {EarlyEpoch, PresentEpoch}
    /\ clock = 0
    /\ sequence_counter = 0
    /\ CodecIdle
    /\ ParseIdle
    /\ EngFresh
    /\ mode = [e \in Engines |-> TRANSMITTER]
    /\ packet_size = [e \in Engines |-> 2]
    /\ transmission_rate = [e \in Engines |-> 2]
    /\ test_duration = [e \in Engines |-> RestartDuration]
    /\ handler = [e \in Engines |-> [NewHandler EXCEPT !.is_connected = (e = 1)]]
    /\ lag = 0
    /\ wired = FALSE
    /\ link_delay = 0
    /\ calls = MaxCalls

RestartNext ==
    \/ \E e \in Engines : StartTest(e)
    \/ \E e \in Engines : TestLoopBegin(e)
    \/ \E e \in Engines : TestLoopEnd(e)
    \/ \E e \in Engines : TransmitterHead(e)
    \/ \E e \in Engines : TransmitterGo(e)
    \/ \E e \in Engines : TransmitterAccount(e)
    \/ \E e \in Engines : TransmitterTail(e)
    \/ \E e \in Engines : TransmitterBlocks(e)
    \/ \E e \in Engines : WriteReturns(e)
    \/ \E e \in Engines : StaleReturns(e)
    \/ \E e \in Engines : StaleAccount(e)
    \/ \E e \in Engines : StopTest(e)
    \/ \E e \in Engines : StopTestEnd(e)
    \/ \E e \in Engines : StartAgain(e)
    \/ Advance

SpecRestart == RestartInit /\ [][RestartNext]_vars

(***************************************************************************)
(* Properties of the engines                                               *)
(***************************************************************************)
IsMissing(x) == x.text = "Missing packet"
IsAckTimeout(x) == x.text = "ACK timeout"

\* the responder has handled exactly the ids 0, 1, 3, 4, in that order,
\* since its test started
Handled0134 == handled[2] = << 0, 1, 3, 4 >>

\* C7 as stated: after 0, 1, 3, 4 the responder has packets_lost == 1, two
\* missing-sequence entries for id 2, and last_sequence == 4.
C7_TwoEntries ==
    Handled0134 =>
      LET missing == SelectSeq(metrics[2].errors, IsMissing)
      IN  /\ metrics[2].packets_lost = 1
          /\ Len(missing) = 2
          /\ \A i \in 1..Len(missing) : missing[i].seq = 2
          /\ last_sequence[2] = 4

\* C7: after handling DATA packets 0, 1, 3, 4 in that order from a fresh
\* start, the responder has packets_lost == 1, exactly one missing-sequence
\* entry, the one for id 2, and last_sequence == 4.
C7_OneEntry ==
    Handled0134 =>
      /\ metrics[2].packets_lost = 1
      /\ SelectSeq(metrics[2].errors, IsMissing) = << ErrorEntry("Missing packet", 2) >>
      /\ last_sequence[2] = 4

\* the four packets were handled with every ACK sent
C7_Witness ==
    /\ Handled0134
    /\ raised[2] = {}
    /\ handler[2].packets_sent = 4

\* the ACK-timeout entries for id s in the error log errors
Timeouts(errors, s) ==
    Cardinality({i \in 1..Len(errors) : IsAckTimeout(errors[i]) /\ errors[i].seq = s})

\* C8: within a test, a DATA packet sent and never acknowledged leaves
\* pending_acks in the first sweep that finds it older than the timeout, and
\* in no other step; that sweep adds 1 to packets_lost and one ACK-timeout
\* entry for its id; every later sweep leaves the count and the entries of
\* that id alone.
C8_AckTimeout ==
    [][runs' = runs =>
       LET sent == {expected_sequences[1]'[i] : i \in 1..Len(expected_sequences[1]')}
           errors == metrics[1].errors
           after == metrics[1].errors'
           gone == {r \in pending_acks[1] : r \notin pending_acks[1]'}
       IN  /\ \A s \in sent :
                /\ Timeouts(after, s) <= 1
                /\ Timeouts(after, s) = 1 <=> s \notin Keys(pending_acks[1]')
           /\ metrics[1].packets_lost' = Len(SelectSeq(after, IsAckTimeout))
           /\ metrics[1].packets_lost' = metrics[1].packets_lost + Cardinality(gone)
           /\ \A r \in pending_acks[1] :
                /\ r \in gone <=>
                     /\ tpc[1] = "sweep"
                     /\ loc[1].current_time - r.sent > Seconds(ack_timeout)
                /\ r \in gone => Timeouts(after, r.seq) = Timeouts(errors, r.seq) + 1
           /\ \A s \in sent \ Keys(pending_acks[1]) :
                Timeouts(after, s) = Timeouts(errors, s)]_vars

\* two packets have timed out, one of them many sweeps ago, others still wait
C8_Witness ==
    /\ metrics[1].packets_lost = 2
    /\ Timeouts(metrics[1].errors, 0) = 1
    /\ Timeouts(metrics[1].errors, 1) = 1
    /\ pending_acks[1] # {}
    /\ tpc[1] = "top"

\* the run of the rate claim: rate 10, size 64, duration 2, its thread over
RateRunOver ==
    /\ transmission_rate[1] = 10
    /\ packet_size[1] = 64
    /\ test_duration[1] = 2
    /\ tpc[1] \in {"done", "crashed"}

\* C9: a transmitter test with rate 10, size 64, duration 2 on a transport
\* that takes every write and returns nothing ends with packets_sent within
\* 1 of 20 and packets_received == 0.
C9_Rate ==
    RateRunOver =>
      /\ metrics[1].packets_sent \in 19..21
      /\ metrics[1].packets_received = 0

\* the same on a machine whose clock is still in the first 49 days of 1970
RateEarlyClock ==
    (RateRunOver /\ epoch = EarlyEpoch) =>
      /\ tpc[1] = "done"
      /\ metrics[1].packets_sent = 20
      /\ metrics[1].packets_received = 0

\* both tests have run to their end, nothing is in flight, and the responder
\* was running for every packet that reached it
LoopbackOver ==
    /\ tpc[1] = "done"
    /\ tpc[2] = "done"
    /\ \A e \in Engines : link[e] = << >> /\ inbox[e] = << >>
    /\ handler[2].packets_received = metrics[2].packets_received

Positive(samples) == \A i \in 1..Len(samples) : samples[i] > 0

\* C10: originator and responder on a lossless, in-order duplex link, rate 5,
\* duration 3, finish with packets_lost == 0 on both sides, packets_received
\* == packets_sent on the originator, and every latency sample above 0.
C10_Loopback ==
    LoopbackOver =>
      /\ metrics[1].packets_lost = 0
      /\ metrics[2].packets_lost = 0
      /\ metrics[1].packets_received = metrics[1].packets_sent
      /\ Positive(metrics[1].latency_samples)
      /\ Positive(metrics[2].latency_samples)

\* the counters alone
LoopbackCounts ==
    LoopbackOver => metrics[1].packets_received = metrics[1].packets_sent

\* the samples alone
LoopbackSamples ==
    LoopbackOver => Positive(metrics[1].latency_samples)

\* a link that takes time, and no handler in the middle of a send
LoopbackSlowLink ==
    (LoopbackOver /\ link_delay > 0 /\ preempts = 0) =>
      /\ metrics[1].packets_lost = 0
      /\ metrics[2].packets_lost = 0
      /\ metrics[1].packets_sent = 15
      /\ metrics[1].packets_received = metrics[1].packets_sent
      /\ Positive(metrics[1].latency_samples)
      /\ Positive(metrics[2].latency_samples)

(***************************************************************************)
(* Properties of the engines under the user's calls                        *)
(***************************************************************************)
\* the step is the user's call of op on engine e
Called(e, op) == calls' = calls - 1 /\ returned'.e = e /\ returned'.op = op

C12_StartRefused ==
    [][\A e \in Engines :
         (Called(e, "start_test") /\ (is_running[e] \/ ~handler[e].is_connected)) =>
           /\ returned'.ret = FALSE
           /\ metrics' = metrics
           /\ trackVars' = trackVars
           /\ is_running' = is_running
           /\ flagVars' = flagVars
           /\ threadVars' = threadVars
           /\ runs' = runs]_vars

\* start_test has just been refused on a paused engine
C12_Witness ==
    /\ returned.op = "start_test"
    /\ returned.ret = FALSE
    /\ is_running[returned.e]
    /\ is_paused[returned.e]
    /\ pause_event[returned.e]

\* start_test has just been refused on an engine without a port
StartRefusedNoPort ==
    /\ returned.op = "start_test"
    /\ returned.ret = FALSE
    /\ ~handler[returned.e].is_connected

\* C13: every start_test that starts a test leaves the engine running and not
\* paused, with every counter 0, the sample and error lists empty, no
\* end_time, pending_acks and received_sequences empty and last_sequence -1.
C13_FreshRun ==
    [][\A e \in Engines :
         runs'[e] # runs[e] =>
           /\ is_running'[e]
           /\ ~is_paused'[e]
           /\ ~stop_event'[e]
           /\ ~pause_event'[e]
           /\ metrics'[e].packets_sent = 0
           /\ metrics'[e].packets_received = 0
           /\ metrics'[e].packets_lost = 0
           /\ metrics'[e].bytes_transmitted = 0
           /\ metrics'[e].latency_samples = << >>
           /\ metrics'[e].bandwidth_samples = << >>
           /\ metrics'[e].errors = << >>
           /\ metrics'[e].end_time = NoStamp
           /\ pending_acks'[e] = {}
           /\ received_sequences'[e] = {}
           /\ last_sequence'[e] = -1]_vars

\* the originator's second test has just been started, after a first one that
\* wrote a packet
C13_Witness ==
    /\ runs[1] = 2
    /\ tpc[1] = "begin"
    /\ returned = [e |-> 1, op |-> "start_test", ret |-> TRUE]
    /\ handler[1].packets_sent > 0
    /\ metrics[1].packets_sent = 0

\* C14: once stop_test waits in join the test thread ends, also when it was
\* in the pause loop; and when stop_test returns the thread has ended,
\* is_running is False and end_time is set and not before start_time.
C14_Stop ==
    /\ \A e \in Engines : (mpc[e] = "joining") ~> (~ThreadAlive(e))
    /\ [][\A e \in Engines :
            (mpc[e] = "joining" /\ mpc'[e] = "idle") =>
              /\ ~ThreadAlive(e)'
              /\ ~is_running'[e]
              /\ metrics'[e].end_time # NoStamp
              /\ metrics'[e].end_time >= metrics'[e].start_time]_vars

\* stop_test has returned on an engine it found paused, the thread has ended
C14_Witness ==
    /\ returned.op = "stop_test"
    /\ returned.ret = "stopped"
    /\ is_paused[returned.e]
    /\ pause_event[returned.e]
    /\ tpc[returned.e] = "done"
    /\ ~is_running[returned.e]

\* C15: a running test whose thread has not failed comes to its end with no
\* stop_test: is_running becomes False and end_time is set, also when the
\* duration runs out while the engine is paused.
C15_SelfStop ==
    \A e \in Engines :
      (is_running[e] /\ Alive(e) /\ tpc[e] # "crashed")
        ~> \/ ~is_running[e] /\ metrics[e].end_time # NoStamp
           \/ ~Alive(e)
           \/ tpc[e] = "crashed"

\* the same for the tests the user does not leave paused
SelfStopUnpaused ==
    \A e \in Engines :
      (is_running[e] /\ Alive(e) /\ tpc[e] # "crashed")
        ~> \/ ~is_running[e] /\ metrics[e].end_time # NoStamp
           \/ ~Alive(e)
           \/ tpc[e] = "crashed"
           \/ is_paused[e]

\* C16: the test thread never ends by an exception.
C16_NoFailure ==
    \A e \in Engines : tpc[e] # "crashed"

\* C17: the slot leaves a paused engine as it was: metrics, pending_acks,
\* received_sequences, last_sequence, and nothing is written.
C17_PausedIgnores ==
    [][\A e \in Engines :
         (is_running[e] /\ is_paused[e] /\ Len(inbox'[e]) < Len(inbox[e])) =>
           /\ metrics'[e] = metrics[e]
           /\ pending_acks'[e] = pending_acks[e]
           /\ received_sequences'[e] = received_sequences[e]
           /\ last_sequence'[e] = last_sequence[e]
           /\ handler'[e].packets_sent = handler[e].packets_sent]_vars

\* C18: while an originator is paused, from the return of pause_test on, it
\* writes no packet, and packets_sent, bytes_transmitted and pending_acks do
\* not grow.
C18_PausedSendsNothing ==
    [][\A e \in Engines :
         (mode[e] = TRANSMITTER /\ is_running[e] /\ is_paused[e] /\ is_paused'[e]) =>
           /\ handler'[e].packets_sent = handler[e].packets_sent
           /\ metrics'[e].packets_sent = metrics[e].packets_sent
           /\ metrics'[e].bytes_transmitted = metrics[e].bytes_transmitted
           /\ pending_acks'[e] \subseteq pending_acks[e]]_vars

\* the same for the packets written only
PausedWritesNothing ==
    [][\A e \in Engines :
         (mode[e] = TRANSMITTER /\ is_running[e] /\ is_paused[e] /\ is_paused'[e]) =>
           handler'[e].packets_sent = handler[e].packets_sent]_vars

\* C19: every id entered in pending_acks is credited or counted lost at most
\* once, never both, and the sweep does not fail on an id the handler removed.
C19_ResolvedOnce ==
    \A e \in Engines :
      /\ metrics[e].packets_received + metrics[e].packets_lost
           + Cardinality(pending_acks[e]) <= Len(expected_sequences[e])
      /\ \A i \in 1..Len(expected_sequences[e]) :
           Timeouts(metrics[e].errors, expected_sequences[e][i]) <= 1
      /\ "sweep" \notin raised[e]

\* the counts alone: no id is resolved twice
ResolvedOnceCounts ==
    \A e \in Engines :
      /\ metrics[e].packets_received + metrics[e].packets_lost
           + Cardinality(pending_acks[e]) <= Len(expected_sequences[e])
      /\ \A i \in 1..Len(expected_sequences[e]) :
           Timeouts(metrics[e].errors, expected_sequences[e][i]) <= 1

\* C20: while the test thread is between the two loops of the sweep, no other
\* thread changes pending_acks or the metrics.
C20_Exclusive ==
    [][\A e \in Engines :
         (tpc[e] = "sweep" /\ tpc'[e] = "sweep") =>
           /\ pending_acks'[e] = pending_acks[e]
           /\ metrics'[e] = metrics[e]]_vars

(***************************************************************************)
(* Properties of the engines: the end of a test, signals, failed sends     *)
(***************************************************************************)
\* the counters, the sample lists and the error list of a metrics record
Counted(m) ==
    << m.packets_sent, m.packets_received, m.packets_lost, m.bytes_transmitted,
       m.latency_samples, m.bandwidth_samples, m.errors >>

\* C21: once end_time is set, by stop_test or by the thread at the end of the
\* duration, no counter, sample list or error list of the metrics changes
\* until the next start_test that starts a test.
C21_Frozen ==
    [][\A e \in Engines :
         (metrics[e].end_time # NoStamp /\ runs'[e] = runs[e]) =>
           Counted(metrics'[e]) = Counted(metrics[e])]_vars

\* the same from the moment is_running is False as well
FrozenNotRunning ==
    [][\A e \in Engines :
         (metrics[e].end_time # NoStamp /\ ~is_running[e] /\ runs'[e] = runs[e]) =>
           Counted(metrics'[e]) = Counted(metrics[e])]_vars

\* the elements of ids are all different
Distinct(ids) == \A i, j \in 1..Len(ids) : i # j => ids[i] # ids[j]

\* C22: the packets one ProtocolHandler created have different sequence ids,
\* and outside create_packet its counter is the number of packets it created,
\* also when the slot creates ACK packets while the thread creates heartbeats.
C22_Serialized ==
    \A e \in Engines :
      /\ Distinct(handler[e].created)
      /\ tpc[e] # "create" => handler[e].sequence_counter = Len(handler[e].created)

\* C23: a test started emits test_started once and test_stopped at most once,
\* and once its thread has ended and stop_test is not under way, exactly once.
C23_StoppedOnce ==
    \A e \in Engines :
      /\ signals[e].started = runs[e]
      /\ signals[e].stopped <= runs[e]
      /\ (tpc[e] = "done" /\ mpc[e] = "idle") => signals[e].stopped = runs[e]

\* started, paused and resumed are emitted once with every accepted
\* start_test, pause_test and resume_test and at no other step
SignalsFollow ==
    [][\A e \in Engines :
         /\ signals'[e].started - signals[e].started = runs'[e] - runs[e]
         /\ runs'[e] = runs[e] =>
              /\ signals'[e].paused - signals[e].paused =
                    IF ~is_paused[e] /\ is_paused'[e] THEN 1 ELSE 0
              /\ signals'[e].resumed - signals[e].resumed =
                    IF is_paused[e] /\ ~is_paused'[e] THEN 1 ELSE 0]_vars

\* the step is a turn of the transmitter loop in which send_packet returned
\* False
SendFailed(e) ==
    /\ mode[e] = TRANSMITTER
    /\ tpc[e] \in {"top", "go", "paused"}
    /\ tpc'[e] = "tail"
    /\ Len(handler'[e].created) - Len(handler[e].created)
         > handler'[e].packets_sent - handler[e].packets_sent

\* C25: a DATA packet whose send fails, because the write fails or because
\* the port is no longer connected, is skipped: packets_sent,
\* bytes_transmitted and pending_acks stay as they were, one error event is
\* emitted, and the loop goes on.
C25_SendSkipped ==
    [][\A e \in Engines :
         SendFailed(e) =>
           /\ metrics'[e].packets_sent = metrics[e].packets_sent
           /\ metrics'[e].bytes_transmitted = metrics[e].bytes_transmitted
           /\ pending_acks'[e] = pending_acks[e]
           /\ handler'[e].error_occurred = handler[e].error_occurred + 1
           /\ raised'[e] = raised[e]]_vars

\* the same for a write that fails on a connected port, the frame encoded
SkippedWriteFails ==
    [][\A e \in Engines :
         (SendFailed(e) /\ handler[e].is_connected) =>
           /\ metrics'[e].packets_sent = metrics[e].packets_sent
           /\ metrics'[e].bytes_transmitted = metrics[e].bytes_transmitted
           /\ pending_acks'[e] = pending_acks[e]
           /\ handler'[e].error_occurred = handler[e].error_occurred + 1
           /\ raised'[e] = raised[e]]_vars

\* on a port that is not connected the send is skipped with no error event
SkippedDisconnected ==
    [][\A e \in Engines :
         (SendFailed(e) /\ ~handler[e].is_connected) =>
           /\ metrics'[e].packets_sent = metrics[e].packets_sent
           /\ metrics'[e].bytes_transmitted = metrics[e].bytes_transmitted
           /\ pending_acks'[e] = pending_acks[e]
           /\ handler'[e].error_occurred = handler[e].error_occurred
           /\ raised'[e] = raised[e]]_vars

\* the DATA packets the step creates: what create_packet gave out, less the
\* heartbeat
DataCreated(e) ==
    (Len(handler'[e].created) - Len(handler[e].created))
      - (IF loc'[e].last_heartbeat # loc[e].last_heartbeat THEN 1 ELSE 0)
\* the thread is in its transmitter loop before the send
BeforeSend(e) == tpc[e] \in {"top", "go", "paused"}
\* the step ends a send attempt: send_packet returned False, or the send that
\* returned True has been counted
AttemptOver(e) ==
    \/ BeforeSend(e) /\ tpc'[e] = "tail" /\ DataCreated(e) = 1
    \/ tpc[e] = "account" /\ tpc'[e] = "tail"
\* the schedule moves with the end of a send attempt, by one interval, and
\* with nothing else
ScheduleFollows(e) ==
    loc'[e].next_packet_time
      = loc[e].next_packet_time
          + (IF AttemptOver(e) THEN PacketInterval(transmission_rate[e]) ELSE 0)
\* the step is one of the transmitter loop of a test going on
InTransmitterLoop(e) ==
    /\ mode[e] = TRANSMITTER
    /\ runs'[e] = runs[e]
    /\ tpc[e] \in {"top", "go", "paused", "account", "tail", "sweep"}

\* C33: in the transmitter loop the schedule advances by exactly one interval
\* (1 / transmission_rate) for each send attempt, whether it succeeded or
\* failed, and an iteration creates at most one DATA packet, also when the
\* loop is behind its schedule after a slow step or a pause.
C33_Schedule ==
    [][\A e \in Engines :
         InTransmitterLoop(e) =>
           /\ ScheduleFollows(e)
           /\ DataCreated(e) \in {0, 1}
           /\ DataCreated(e) = 1 => BeforeSend(e) /\ tpc'[e] \in {"account", "tail"}]_vars

\* the same for the attempts from which send_packet returns
ScheduleUnlessRaised ==
    [][\A e \in Engines :
         (InTransmitterLoop(e) /\ tpc'[e] # "crashed") =>
           /\ ScheduleFollows(e)
           /\ DataCreated(e) \in {0, 1}
           /\ DataCreated(e) = 1 => BeforeSend(e) /\ tpc'[e] \in {"account", "tail"}]_vars

\* the loop was behind its schedule and sent one packet
BehindSchedule ==
    /\ tpc[1] = "account"
    /\ mode[1] = TRANSMITTER
    /\ loc[1].current_time >= loc[1].next_packet_time + PacketInterval(transmission_rate[1])

\* C34: in transmitter mode, at every point between the updates of the send
\* step, the ACK handler and the timeout sweep, packets_sent is
\* packets_received + packets_lost + the number of entries of pending_acks,
\* so that neither packets_lost nor packets_received is above packets_sent.
C34_Conservation ==
    \A e \in Engines :
      mode[e] = TRANSMITTER =>
        /\ metrics[e].packets_sent
             = metrics[e].packets_received + metrics[e].packets_lost
                 + Cardinality(pending_acks[e])
        /\ metrics[e].packets_lost <= metrics[e].packets_sent
        /\ metrics[e].packets_received <= metrics[e].packets_sent

\* a test has sent three packets: one acknowledged, one timed out, one pending
C34_Witness ==
    /\ mode[1] = TRANSMITTER
    /\ metrics[1].packets_received > 0
    /\ metrics[1].packets_lost > 0
    /\ pending_acks[1] # {}

\* a thread at pc runs the statements of its loop: it is neither inside a
\* write that does not return, nor before or past the loop
InLoop(pc) == pc \in {"top", "paused", "go", "account", "tail", "sweep", "create"}

\* C35: at most one test thread of an engine executes loop iterations at any
\* time, whatever the user calls, also when the join of stop_test timed out
\* on a thread inside a write and start_test was called again.
C35_OneLoop ==
    \A e \in Engines : ~(InLoop(tpc[e]) /\ InLoop(handler[e].stale.pc))

\* a thread outlives its test only when the join gave up on it
StaleAfterTimeout ==
    [][\A e \in Engines :
         (handler[e].stale.pc = "none" /\ handler'[e].stale.pc # "none") =>
           /\ tpc[e] = "write"
           /\ ~is_running[e]
           /\ mpc[e] = "idle"]_vars

\* where no write blocks, no thread outlives its test
NoStale == \A e \in Engines : handler[e].stale.pc = "none"

\* the ids of the DATA packets the originator o has sent in this test
SentIds(o) ==
    IF tpc[o] = "account" THEN Append(expected_sequences[o], loc[o].sequence_id)
    ELSE expected_sequences[o]

\* the responder e of a wired pair has handled the DATA packets of the
\* originator from the first on, none missed and in order
NothingMissed(e) ==
    /\ wired
    /\ mode[e] = RECEIVER
    /\ mode[Other(e)] = TRANSMITTER
    /\ Len(handled[e]) <= Len(SentIds(Other(e)))
    /\ handled[e] = SubSeq(SentIds(Other(e)), 1, Len(handled[e]))

\* C36: on a lossless, in-order link the responder's packets_lost stays 0
\* whatever heartbeat_interval and test_duration are: the HEARTBEAT packets
\* of the originator, which take their ids from the counter of the DATA
\* packets, are not counted as lost DATA packets.
C36_NoLossOnLink ==
    \A e \in Engines : NothingMissed(e) => metrics[e].packets_lost = 0

\* as long as the originator has created DATA packets only, nothing is
\* counted lost
NoLossBeforeBeat ==
    \A e \in Engines :
      (NothingMissed(e)
         /\ Len(handler[Other(e)].created) = Len(SentIds(Other(e))))
        => metrics[e].packets_lost = 0

\* C37: the second test of an originator and a responder on a lossless,
\* in-order link ends with the responder's packets_lost at 0 as well: the
\* restart sets last_sequence to -1 in agreement with the id the
\* originator's codec gives the first DATA packet of the new test.
C37_SecondRun ==
    \A e \in Engines :
      (NothingMissed(e) /\ runs[e] > 1 /\ runs[Other(e)] > 1)
        => metrics[e].packets_lost = 0

\* in the first test of the pair nothing is counted lost
FirstRunNoLoss ==
    \A e \in Engines :
      (NothingMissed(e) /\ runs[e] = 1 /\ runs[Other(e)] = 1)
        => metrics[e].packets_lost = 0

\* what is counted lost in the second test are the ids of the first
SecondRunLosesFirst ==
    \A e \in Engines :
      (NothingMissed(e) /\ runs[e] = 2 /\ runs[Other(e)] = 2 /\ handled[e] # << >>)
        => metrics[e].packets_lost = handled[e][1]

\* C39: in every state is_paused implies is_running, and the pause flag the
\* loop reads agrees with is_paused: an engine that is stopped or idle is
\* never paused, also after stop_test on a paused test or after the duration
\* has run out.
C39_PausedIsRunning ==
    \A e \in Engines :
      /\ is_paused[e] => is_running[e]
      /\ pause_event[e] = is_paused[e]

\* is_paused and the flag the loop reads agree
PauseFlagAgrees == \A e \in Engines : pause_event[e] = is_paused[e]

\* a paused engine is not running only after its test was stopped or ended
\* while paused: nothing but start_test clears is_paused then
PausedStoppedOnly ==
    [][\A e \in Engines :
         (is_paused'[e] /\ ~is_running'[e]) =>
           /\ is_paused[e]
           /\ is_running[e] => returned'.op = "stop_test" \/ tpc[e] = "final"]_vars

\* all that a lifecycle call of the user may change of the engine e
EngineState(e) ==
    << is_running[e], is_paused[e], stop_event[e], pause_event[e], signals[e],
       metrics[e], pending_acks[e], expected_sequences[e], received_sequences[e],
       last_sequence[e], mode[e], packet_size[e], transmission_rate[e],
       test_duration[e], handler[e], tpc[e], mpc[e], deadline[e], runs[e] >>

\* the step is the user's call of op on the engine e
Calls(e, op) ==
    /\ calls' = calls - 1
    /\ returned'.e = e
    /\ returned'.op = op

\* the call of the step is made outside its source state
OutsideSource(e) ==
    \/ Calls(e, "stop_test") /\ ~is_running[e]
    \/ Calls(e, "pause_test") /\ (~is_running[e] \/ is_paused[e])
    \/ Calls(e, "resume_test") /\ (~is_running[e] \/ ~is_paused[e])

\* the call of the step leaves the engine outside the source state of the
\* call
LeavesSource(e) ==
    /\ Calls(e, "stop_test") => ~is_running'[e]
    /\ Calls(e, "pause_test") => (~is_running'[e] \/ is_paused'[e])
    /\ Calls(e, "resume_test") => (~is_running'[e] \/ ~is_paused'[e])

\* C40: stop_test on an engine that is not running, pause_test on one that
\* is not running or is paused, resume_test on one that is not running or is
\* not paused change nothing of the engine (is_running, is_paused, the flags,
\* the metrics with end_time) and emit no event; each of the three calls
\* leaves the engine outside its source state, so that the same call made
\* again has no further effect.
C40_NoOps ==
    [][\A e \in Engines :
         /\ OutsideSource(e) => EngineState(e)' = EngineState(e)
         /\ LeavesSource(e)]_vars

\* resume_test() was called on a running engine that was never paused
C40_Witness ==
    \E e \in Engines :
      /\ returned = [e |-> e, op |-> "resume_test", ret |-> "none"]
      /\ is_running[e]
      /\ signals[e].paused = 0
      /\ signals[e].resumed = 0

\* the two other calls made outside their source states
StopNotRunning ==
    \E e \in Engines :
      /\ returned = [e |-> e, op |-> "stop_test", ret |-> "none"]
      /\ signals[e].stopped = 0
PauseOnPaused ==
    \E e \in Engines :
      /\ returned = [e |-> e, op |-> "pause_test", ret |-> "none"]
      /\ calls = 0
      /\ signals[e].paused = 1
      /\ signals[e].resumed = 0
      /\ mode[e] = TRANSMITTER

(***************************************************************************)
(* Properties of the engines: what the slot does with a packet             *)
(***************************************************************************)
\* how many packets the slot of e has been given
Taken(e) == handler[e].packets_received - Len(inbox[e])

\* the step is a run of the slot _handle_received_packet
SlotRuns(e) == inbox[e] # << >> /\ inbox'[e] = Tail(inbox[e])
\* the packet the slot is given
Given(e) == Head(inbox[e])
\* the slot leaves the tracking state, the handler and the line as they are
SlotSendsNothing(e) ==
    /\ pending_acks'[e] = pending_acks[e]
    /\ received_sequences'[e] = received_sequences[e]
    /\ last_sequence'[e] = last_sequence[e]
    /\ expected_sequences'[e] = expected_sequences[e]
    /\ handler'[e] = handler[e]
    /\ link' = link

\* C26: a packet of a type the mode does not expect (DATA in transmitter
\* mode, ACK in receiver mode), handled during a running test, appends exactly
\* one entry to metrics.errors and changes nothing else: the counters, the
\* sample lists, pending_acks, received_sequences and last_sequence stay the
\* same and no packet is sent.
C26_Unexpected ==
    [][\A e \in Engines :
         (/\ SlotRuns(e)
          /\ is_running[e]
          /\ \/ mode[e] = TRANSMITTER /\ Given(e).packet_type = DATA
             \/ mode[e] = RECEIVER /\ Given(e).packet_type = ACK) =>
           /\ Len(metrics'[e].errors) = Len(metrics[e].errors) + 1
           /\ SubSeq(metrics'[e].errors, 1, Len(metrics[e].errors)) = metrics[e].errors
           /\ [metrics'[e] EXCEPT !.errors = metrics[e].errors] = metrics[e]
           /\ SlotSendsNothing(e)]_vars

\* a running originator has logged the peer's DATA packet
C26_Witness ==
    /\ is_running[1]
    /\ mode[1] = TRANSMITTER
    /\ Len(metrics[1].errors) = 1
    /\ metrics[1].errors[1].text = "Unexpected DATA packet"
    /\ metrics[1].packets_sent = 1

\* the entries of pending_acks the ACK packet pkt acknowledges
AckedPending(e, pkt) ==
    {r \in pending_acks[e] :
       /\ GetAckedSequence(pkt).some
       /\ GetAckedSequence(pkt).hi = 0
       /\ GetAckedSequence(pkt).lo = r.seq}

\* C27: an ACK packet handled in transmitter mode during a running test whose
\* acknowledged id is in pending_acks removes exactly that entry, appends
\* exactly one latency sample and adds 1 to packets_received; one whose id is
\* absent (late, duplicate, unknown), or that holds no id, changes nothing at
\* all, the error log included; the slot raises nothing.
C27_AckResolved ==
    [][\A e \in Engines :
         (/\ SlotRuns(e)
          /\ is_running[e]
          /\ mode[e] = TRANSMITTER
          /\ Given(e).packet_type = ACK) =>
           /\ handler'[e] = handler[e]
           /\ link' = link
           /\ raised'[e] = raised[e]
           /\ IF AckedPending(e, Given(e)) # {}
              THEN /\ Cardinality(AckedPending(e, Given(e))) = 1
                   /\ pending_acks'[e] = pending_acks[e] \ AckedPending(e, Given(e))
                   /\ metrics'[e].latency_samples
                        = Append(metrics[e].latency_samples,
                                 clock - (CHOOSE r \in AckedPending(e, Given(e)) : TRUE).sent)
                   /\ metrics'[e].packets_received = metrics[e].packets_received + 1
                   /\ [metrics'[e] EXCEPT
                         !.latency_samples = metrics[e].latency_samples,
                         !.packets_received = metrics[e].packets_received] = metrics[e]
              ELSE /\ metrics'[e] = metrics[e]
                   /\ pending_acks'[e] = pending_acks[e]]_vars

\* the packets pkts are one ACK packet that acknowledges id
Acknowledges(pkts, id) ==
    /\ Len(pkts) = 1
    /\ pkts[1].packet_type = ACK
    /\ GetAckedSequence(pkts[1]) = [some |-> TRUE, hi |-> 0, lo |-> id]
\* the frames written are one frame that decodes to an ACK of id
WroteAckOf(frames, id) ==
    /\ Len(frames) = 1
    /\ Acknowledges(ParseBuffer(frames[1]).out, id)

\* the slot counted the DATA packet it was given and sent one ACK of its id
CountedAndAcked(e) ==
    /\ metrics'[e].packets_received = metrics[e].packets_received + 1
    /\ metrics'[e].bytes_transmitted
         = metrics[e].bytes_transmitted + Len(Given(e).payload)
    /\ handler'[e].created = Append(handler[e].created, handler[e].sequence_counter)
    /\ handler'[e].packets_sent = handler[e].packets_sent + 1
    /\ WroteAckOf(HandleReceivedPacket(e, Given(e)).out, Given(e).sequence_id)
    /\ raised'[e] = raised[e]

\* C28: for every DATA packet handled in receiver mode during a running
\* test, packets_received grows by 1, bytes_transmitted grows by the length
\* of the payload, and exactly one ACK packet is created and written, whose
\* payload carries the sequence id of the packet received.
C28_CountedAndAcked ==
    [][\A e \in Engines :
         (/\ SlotRuns(e)
          /\ is_running[e]
          /\ mode[e] = RECEIVER
          /\ Given(e).packet_type = DATA) => CountedAndAcked(e)]_vars

\* the same at a clock whose milliseconds fit the timestamp field
CountedAndAckedEarly ==
    [][\A e \in Engines :
         (/\ SlotRuns(e)
          /\ is_running[e]
          /\ mode[e] = RECEIVER
          /\ Given(e).packet_type = DATA
          /\ epoch = EarlyEpoch) => CountedAndAcked(e)]_vars

\* the counts alone, at every clock
CountedAtEveryClock ==
    [][\A e \in Engines :
         (/\ SlotRuns(e)
          /\ is_running[e]
          /\ mode[e] = RECEIVER
          /\ Given(e).packet_type = DATA) =>
           /\ metrics'[e].packets_received = metrics[e].packets_received + 1
           /\ metrics'[e].bytes_transmitted
                = metrics[e].bytes_transmitted + Len(Given(e).payload)
           /\ handler'[e].created
                = Append(handler[e].created, handler[e].sequence_counter)]_vars

\* C30: within one test run in receiver mode last_sequence never decreases:
\* after handling a DATA packet it is the maximum of its value before and the
\* packet's sequence id, whatever the order of arrival, duplicates and
\* packets out of order included.
C30_Monotone ==
    [][\A e \in Engines :
         (runs'[e] = runs[e] /\ mode[e] = RECEIVER) =>
           /\ last_sequence'[e] >= last_sequence[e]
           /\ (SlotRuns(e) /\ is_running[e] /\ Given(e).packet_type = DATA) =>
                 last_sequence'[e] = IF Given(e).sequence_id > last_sequence[e]
                                     THEN Given(e).sequence_id
                                     ELSE last_sequence[e]]_vars

\* the responder has handled id 2, then id 0, then id 2 again
C30_Witness ==
    /\ mode[2] = RECEIVER
    /\ handled[2] = << 2, 0, 2 >>
    /\ last_sequence[2] = 2

\* the ids between last_sequence and the id of the packet given that no
\* packet of the run has carried
GapOf(e) ==
    {q \in (last_sequence[e] + 1)..(Given(e).sequence_id - 1) :
       q \notin received_sequences[e]}
\* the missing-packet entries for id q in the error log errors
Missings(errors, q) ==
    Cardinality({i \in 1..Len(errors) : IsMissing(errors[i]) /\ errors[i].seq = q})

\* C31: within one test run in receiver mode, every id in the gap between
\* last_sequence and the id of an incoming DATA packet that has not been seen
\* is counted as lost exactly once, when the gap is found: packets_lost grows
\* by the number of such ids, one error entry is appended for each, and no
\* later packet counts an id again, whatever the order of arrival.
C31_GapCountedOnce ==
    [][\A e \in Engines :
         (runs'[e] = runs[e] /\ mode[e] = RECEIVER) =>
           /\ (SlotRuns(e) /\ is_running[e] /\ Given(e).packet_type = DATA) =>
                 /\ metrics'[e].packets_lost
                      = metrics[e].packets_lost + Cardinality(GapOf(e))
                 /\ Len(metrics'[e].errors)
                      = Len(metrics[e].errors) + Cardinality(GapOf(e))
                 /\ \A q \in GapOf(e) :
                      Missings(metrics'[e].errors, q) = Missings(metrics[e].errors, q) + 1
           /\ \A q \in 0..MaxSeq : Missings(metrics'[e].errors, q) <= 1]_vars

\* the responder was given id 1 and then id 4: the ids 0, 2 and 3 are lost
C31_Witness ==
    /\ mode[2] = RECEIVER
    /\ handled[2] = << 1, 4 >>
    /\ metrics[2].packets_lost = 3
    /\ Len(metrics[2].errors) = 3

\* the ids up to last_sequence that no packet of the run has carried
Unseen(e) == {q \in 0..last_sequence[e] : q \notin received_sequences[e]}

\* C38: in receiver mode, after any sequence of DATA packets in any order
\* (gaps, duplicates, late arrivals), packets_lost is the number of ids in
\* 0..last_sequence that are not in received_sequences.
C38_LostIsUnseen ==
    \A e \in Engines :
      mode[e] = RECEIVER => metrics[e].packets_lost = Cardinality(Unseen(e))

\* packets_lost is never below that number
LostCoversUnseen ==
    \A e \in Engines :
      mode[e] = RECEIVER => metrics[e].packets_lost >= Cardinality(Unseen(e))

\* they are equal as long as every id arrived above the ones before it
LostIsUnseenAscending ==
    \A e \in Engines :
      (mode[e] = RECEIVER
       /\ \A i \in 1..Len(handled[e]) : \A j \in 1..Len(handled[e]) :
            i < j => handled[e][i] <= handled[e][j]) =>
        metrics[e].packets_lost = Cardinality(Unseen(e))

\* C29: handling a HEARTBEAT packet changes no metric and no tracking state
\* in either mode: counters, sample lists, error log, pending_acks,
\* received_sequences and last_sequence stay as they are and no packet is
\* sent in reply.
C29_HeartbeatIgnored ==
    [][\A e \in Engines :
         (SlotRuns(e) /\ Given(e).packet_type = HEARTBEAT) =>
           /\ metrics'[e] = metrics[e]
           /\ SlotSendsNothing(e)]_vars

\* a running engine has read one frame, of the length of a HEARTBEAT frame,
\* half a second into the test, and its slot has been given the packet
C29_Witness ==
    /\ is_running[1]
    /\ clock = Seconds(1) \div 2
    /\ handler[1].packets_received = 1
    /\ handler[1].bytes_received = HEADER_SIZE + FOOTER_SIZE
    /\ inbox[1] = << >>
    /\ link[1] = << >>

\* C24: the packets reach the slot in the order in which their frames came
\* over the line, however the reads cut the stream: the peer sends the ids
\* 0, 1, 2, ... in this order, the packets that wait for the slot are the
\* next ids in this order, and the slot is given the first of them.
C24_InOrder ==
    [][\A e \in Engines :
         /\ \A i \in 1..Len(inbox'[e]) :
              inbox'[e][i].sequence_id = (Taken(e)' + i) - 1
         /\ Len(inbox'[e]) < Len(inbox[e]) =>
              /\ Head(inbox[e]).sequence_id = Taken(e)
              /\ inbox'[e] = Tail(inbox[e])]_vars

\* the slot has been given the first packet, the second waits for it, and a
\* read has left part of a frame in the buffer
C24_Witness ==
    /\ Taken(2) = 1
    /\ Len(inbox[2]) = 1
    /\ Len(handler[2].buffer) > 0
    /\ handler[2].bytes_received > 0

=============================================================================
